---- MODULE Spec2Model ----
(***************************************************************************)
(* Model of scripts/solodit_client.py: the in-memory cache of              *)
(* SoloditClient (_get_cached / _set_cached), the retry loop of            *)
(* _make_request, search_findings, and the module-level singleton          *)
(* (get_client / reset_client).                                            *)
(*                                                                         *)
(* Time.  `now' is the reading of time.time() in whole clock units.  The   *)
(* clock never goes back; it advances by Tick, which can happen between    *)
(* any two steps (also while a search sleeps or waits for the network).    *)
(* The sleep after a call of the retry loop is recorded in `slept', in     *)
(* half seconds (0.5 * k seconds is k, Retry-After n seconds is 2 * n).    *)
(*                                                                         *)
(* Size.  The store of the source holds up to 1000 entries and evicts 100  *)
(* when a put makes it larger; MaxEntries and EvictCount stand for these   *)
(* two numbers at a scale the model checker can enumerate.                 *)
(***************************************************************************)
EXTENDS Integers, Sequences, FiniteSets, TLC

\* ---------------------------------------------------------------- bounds
MaxEntries == 2
EvictCount == 1
MaxTime == 1
NumThreads == 2
MaxClients == 3

\* ------------------------------------------------------ program constants
\* variant of MAX_RETRIES: one attempt more
MAX_RETRIES_plus == 3 + 1
MAX_RETRIES == 3
DefaultRetryAfter == 2
MaxPageSize == 100

NoneVal == 0
Values == {1, 2}
TTLs == {0, 1}

\* ------------------------------------------------------------- requests
PageArgs == {0, 1, 2, 3}
PageSizeArgs == {20}

\* what a caller can pass as well: pages below 1, page sizes outside 1..100
AnyPageArgs == {0 - 3, 0, 1, 2}
AnyPageSizeArgs == {0, 20, 250}

Max2(a, b) == IF a >= b THEN a ELSE b
Min2(a, b) == IF a <= b THEN a ELSE b

\* variant of request_data with a slip: the page size has no upper limit
request_data_unlimited(page, page_size) ==
    [page |-> Max2(1, page), pageSize |-> Max2(1, page_size)]

\* request_data of search_findings: the page and page size are clamped
request_data(page, page_size) ==
    [page |-> Max2(1, page), pageSize |-> Min2(Max2(1, page_size), MaxPageSize)]

\* _get_cache_key: endpoint plus the JSON text of the request, keys sorted
get_cache_key(endpoint, data) == <<endpoint, data.page, data.pageSize>>

CacheKeys ==
    {get_cache_key("/findings", request_data(p, s)) : p \in PageArgs, s \in PageSizeArgs}

\* ---------------------------------------------------------------- cache
\* self._cache: a dict, which keeps insertion order; an entry is
\* key -> (result, timestamp)
KeysOf(c) == {c[i].key : i \in 1..Len(c)}

IndexOf(c, k) == CHOOSE i \in 1..Len(c) : c[i].key = k

\* stable insertion of e into a sequence sorted by timestamp: e goes after
\* every item whose timestamp is not larger (sorted() is stable)
RECURSIVE InsertByTs(_, _)
InsertByTs(e, s) ==
    IF s = <<>> THEN <<e>>
    ELSE IF Head(s).ts <= e.ts THEN <<Head(s)>> \o InsertByTs(e, Tail(s))
    ELSE <<e>> \o s

RECURSIVE sorted_items(_)
sorted_items(c) ==
    IF c = <<>> THEN <<>>
    ELSE InsertByTs(c[Len(c)], sorted_items(SubSeq(c, 1, Len(c) - 1)))

Prefix(s, n) == SubSeq(s, 1, Min2(n, Len(s)))

\* variant of IsExpired with a slip: an entry as old as the TTL is expired
IsExpired_ge(e, t, ttl_) == t - e.ts >= ttl_

\* the test of _get_cached: time.time() - timestamp > self.cache_ttl
IsExpired(e, t, ttl_) == t - e.ts > ttl_

\* variant of get_cached with a slip: the expired entry is not deleted
get_cached_keeps(c, k, t, ttl_) ==
    IF k \notin KeysOf(c)
    THEN [cache |-> c, res |-> NoneVal, expired |-> FALSE]
    ELSE LET e == c[IndexOf(c, k)] IN
         IF IsExpired(e, t, ttl_)
         THEN [cache |-> c, res |-> NoneVal, expired |-> TRUE]
         ELSE [cache |-> c, res |-> e.value, expired |-> FALSE]

\* _get_cached: the store afterwards, the value returned, and whether an
\* expired entry was deleted
get_cached(c, k, t, ttl_) ==
    IF k \notin KeysOf(c)
    THEN [cache |-> c, res |-> NoneVal, expired |-> FALSE]
    ELSE LET e == c[IndexOf(c, k)] IN
         IF IsExpired(e, t, ttl_)
         THEN [cache |-> SelectSeq(c, LAMBDA x : x.key # k),
               res |-> NoneVal, expired |-> TRUE]
         ELSE [cache |-> c, res |-> e.value, expired |-> FALSE]

\* self._cache[cache_key] = (result, time.time()): an existing key keeps
\* its place in the dict, a new key goes to the end
StoreEntry(c, k, v, t) ==
    LET e == [key |-> k, value |-> v, ts |-> t] IN
    IF k \in KeysOf(c) THEN [c EXCEPT ![IndexOf(c, k)] = e] ELSE Append(c, e)

\* variants of EvictionVictims with a slip: the sort reversed, and the sort
\* left out (dict order)
EvictionVictims_newest(c) ==
    SubSeq(sorted_items(c), Len(c) - Min2(EvictCount, Len(c)) + 1, Len(c))
EvictionVictims_unsorted(c) == Prefix(c, EvictCount)

\* sorted_items[:100] of _set_cached: the entries the eviction deletes
EvictionVictims(c) == Prefix(sorted_items(c), EvictCount)

\* _set_cached: the store afterwards and the entries evicted
set_cached(c, k, v, t) ==
    LET stored == StoreEntry(c, k, v, t) IN
    IF Len(stored) > MaxEntries
    THEN LET victims == EvictionVictims(stored)
             gone == {victims[i].key : i \in 1..Len(victims)} IN
         [cache |-> SelectSeq(stored, LAMBDA x : x.key \notin gone),
          evicted |-> victims]
    ELSE [cache |-> stored, evicted |-> <<>>]

\* truth value of "if cached:": None is false, a SearchResult (a dataclass
\* with neither __bool__ nor __len__) is true
Truthy(v) == v # NoneVal

\* ------------------------------------------------------------- responses
\* what one session.post can bring: an HTTP response (status, Retry-After
\* header text, body), a timeout, or another transport error
RetryAfterHeaders == {"absent", "1", "-1", "Wed, 21 Oct 2026 07:28:00 GMT"}

HttpResponse(status, header, body) ==
    [kind |-> "http", status |-> status, header |-> header, body |-> body]

\* bodies of a 200 response besides the complete ones (Values): a JSON
\* object without "findings", "metadata" and "rateLimit", and a text that is
\* not JSON
BodyNoFields == 3
BodyNotJSON == 4

\* what response.json() raises for a text that is not JSON: with requests
\* 2.27 and later requests.exceptions.JSONDecodeError, which is a
\* RequestException, with earlier versions a ValueError that is none; the
\* repository does not say which version it runs with
JsonErrors == {"RequestException", "ValueError"}

UnparsedResponse(raised) ==
    [kind |-> "http", status |-> 200, header |-> "absent", body |-> BodyNotJSON,
     json_error |-> raised]

Responses ==
    {HttpResponse(200, "absent", v) : v \in Values \cup {BodyNoFields}}
    \cup {UnparsedResponse(e) : e \in JsonErrors}
    \cup {HttpResponse(429, h, NoneVal) : h \in RetryAfterHeaders}
    \cup {HttpResponse(st, "absent", NoneVal) : st \in {401, 403, 500}}
    \cup {[kind |-> k, status |-> 0, header |-> "absent", body |-> NoneVal] :
             k \in {"timeout", "connerr"}}

\* int(text): the decimal integers among the header texts; any other text
\* makes int() raise ValueError
IsIntText(h) == h \in {"0", "1", "-1"}
IntOfText(h) == CASE h = "0" -> 0 [] h = "1" -> 1 [] h = "-1" -> 0 - 1

\* int(response.headers.get("Retry-After", 2)), for a header int() accepts
retry_after(resp) ==
    IF resp.header = "absent" THEN DefaultRetryAfter ELSE IntOfText(resp.header)

Retry(halfSeconds) == [next |-> "retry", sleep |-> halfSeconds, error |-> "", body |-> NoneVal]
Raise(err) == [next |-> "raise", sleep |-> 0, error |-> err, body |-> NoneVal]
Return(body) == [next |-> "return", sleep |-> 0, error |-> "", body |-> body]

\* range(MAX_RETRIES)
Attempts == 0..(MAX_RETRIES - 1)

\* variant of ExceptClause with a slip: every wait is 0.5 s
ExceptClause_flat(att, err) ==
    IF att < MAX_RETRIES - 1 THEN Retry(1) ELSE Raise(err)

\* the two except clauses of _make_request: sleep 0.5 * (attempt + 1) and
\* go on while attempts are left, otherwise raise SoloditAPIError
ExceptClause(att, err) ==
    IF att < MAX_RETRIES - 1 THEN Retry(att + 1) ELSE Raise(err)

\* variant of Iteration with a slip: the error raised for 401/403 is caught
\* by the handler of request errors and retried
Iteration_auth_retried(att, resp) ==
    IF resp.kind = "timeout" THEN ExceptClause(att, "RequestTimedOut")
    ELSE IF resp.kind = "connerr" THEN ExceptClause(att, "RequestFailed")
    ELSE IF resp.status = 429 /\ resp.header # "absent" /\ ~IsIntText(resp.header)
         THEN Raise("ValueError")
    ELSE IF resp.status = 429 /\ att < MAX_RETRIES - 1
         THEN IF retry_after(resp) < 0
              THEN Raise("ValueError")
              ELSE Retry(2 * retry_after(resp))
    ELSE IF resp.status \in {401, 403} THEN ExceptClause(att, "AuthError")
    ELSE IF resp.status >= 400 THEN ExceptClause(att, "RequestFailed")
    ELSE IF resp.body = BodyNotJSON
         THEN IF resp.json_error = "RequestException"
              THEN ExceptClause(att, "RequestFailed")
              ELSE Raise("ValueError")
    ELSE Return(resp.body)

\* one iteration of "for attempt in range(MAX_RETRIES)" of _make_request,
\* att counted from 0, for the response the post brought
Iteration(att, resp) ==
    IF resp.kind = "timeout" THEN ExceptClause(att, "RequestTimedOut")
    ELSE IF resp.kind = "connerr" THEN ExceptClause(att, "RequestFailed")
    ELSE IF resp.status = 429 /\ resp.header # "absent" /\ ~IsIntText(resp.header)
         THEN Raise("ValueError")
    ELSE IF resp.status = 429 /\ att < MAX_RETRIES - 1
         THEN IF retry_after(resp) < 0
              THEN Raise("ValueError")
              ELSE Retry(2 * retry_after(resp))
    ELSE IF resp.status \in {401, 403} THEN Raise("AuthError")
    ELSE IF resp.status >= 400 THEN ExceptClause(att, "RequestFailed")
    ELSE IF resp.body = BodyNotJSON
         THEN IF resp.json_error = "RequestException"
              THEN ExceptClause(att, "RequestFailed")
              ELSE Raise("ValueError")
    ELSE Return(resp.body)

\* what a call brought, in short: the Retry-After header text of a 429, the
\* status of another HTTP response, or the kind of failure
Tag(resp) ==
    IF resp.kind # "http" THEN resp.kind
    ELSE IF resp.status = 429 THEN resp.header
    ELSE IF resp.status = 200 /\ resp.body = BodyNotJSON THEN "200 not JSON"
    ELSE IF resp.status = 200 /\ resp.body = BodyNoFields THEN "200 no fields"
    ELSE IF resp.status = 200 THEN "200"
    ELSE IF resp.status = 401 THEN "401"
    ELSE IF resp.status = 403 THEN "403"
    ELSE "500"

\* the SearchResult of a body with no findings, metadata of one page with
\* no results, and a rate limit of 0 remaining
EmptyResult == 1

\* the SearchResult search_findings builds from a response body: a field
\* that is missing is read as empty (response.get("findings", []) and the
\* like), so a body without the three fields gives the result of a body
\* whose fields are there and empty; the complete bodies are named by the
\* results they give
SearchResultOf(body) == IF body = BodyNoFields THEN EmptyResult ELSE body

\* ---------------------------------------------------------------- state
VARIABLES
    cache,      \* self._cache, in dict order
    now,        \* the reading of time.time()
    ttl,        \* self.cache_ttl
    last,       \* the cache operation the latest step performed, if any
    pc,         \* "idle", "request" inside the loop of _make_request, or
                \* "done" when the search is about to return or raise
    req,        \* cache_key and use_cache of the search in progress
    attempt,    \* the loop variable of _make_request
    calls,      \* session.post calls of the latest search
    got,        \* what the latest of these calls brought (see Tag)
    all429,     \* every call of the latest search brought an HTTP 429
    nsleeps,    \* time.sleep calls of the latest search
    slept,      \* length of the sleep that followed the latest call, in half
                \* seconds, NoSleep when none did
    outcome,    \* how the latest search ended
    tpc,        \* threads on the shared store: position of each
    tloc,       \* threads on the shared store: locals of each
    client,     \* the module global _client
    cpc,        \* callers of get_client: position of each
    cret,       \* callers of get_client: the instance each got since the
                \* latest reset
    made,       \* the instances constructed since the latest reset
    built,      \* the number of instances constructed so far
    vulnerability_description,
                \* pattern matcher: the description of the query
    snippet,    \* its code excerpt, "" for None
    inferred_tags,
                \* the tags of the query
    keywords,   \* the keywords of the query
    candidate,  \* the finding _calculate_relevance is called for
    relevance,  \* what _calculate_relevance returned for it
    previous,   \* what it returned for the same finding with the content
                \* the finding had before
    min_similarity,
                \* the threshold of the query
    results,    \* how the search of the query ended
    matches,    \* what find_similar_vulnerabilities returned
    report,     \* what generate_report returned
    mpc,        \* position of main(): "start", "found" or "raised" after
                \* find_similar_vulnerabilities, "reported" or "exit"
    response,   \* search_findings: the "findings" of the body _make_request
                \* returned
    payload,    \* RPC gatekeeper: the body of the POST in hand, parsed
    forward_payload,
                \* what do_POST sent to the upstream endpoint for it
    sent        \* what do_POST answered with _send_json

cacheVars == <<cache, now, ttl, last>>
searchVars == <<pc, req, attempt, calls, got, all429, nsleeps, slept, outcome>>
threadVars == <<tpc, tloc>>
clientVars == <<client, cpc, cret, made, built>>
matchVars == <<vulnerability_description, snippet, inferred_tags, keywords, candidate,
               relevance, previous, min_similarity, results, matches, report, mpc>>
ioVars == <<response, payload, forward_payload, sent>>
vars == <<cache, now, ttl, last, pc, req, attempt, calls, got, all429, nsleeps,
          slept, outcome,
          tpc, tloc, client, cpc, cret, made, built,
          vulnerability_description, snippet, inferred_tags, keywords, candidate,
          relevance, previous, min_similarity, results, matches, report, mpc,
          response, payload, forward_payload, sent>>

NoKey == <<"", 0, 0>>
NoPut == [is |-> FALSE, value |-> NoneVal, evicting |-> FALSE]
NoOp ==
    [op |-> "none", by |-> "", key |-> NoKey, value |-> NoneVal, res |-> NoneVal,
     had |-> FALSE, expired |-> FALSE, evicted |-> <<>>, prevPut |-> NoPut]
\* a get of key k by `by', g being what _get_cached did on store c; prevPut
\* tells whether the step before was a put of the same key
GetOp(by, k, g, c, prev) ==
    [op |-> "get", by |-> by, key |-> k, value |-> NoneVal, res |-> g.res,
     had |-> k \in KeysOf(c), expired |-> g.expired, evicted |-> <<>>,
     prevPut |-> IF prev.op = "put" /\ prev.key = k
                 THEN [is |-> TRUE, value |-> prev.value,
                       evicting |-> prev.evicted # <<>>]
                 ELSE NoPut]
PutOp(by, k, v, s, c) ==
    [op |-> "put", by |-> by, key |-> k, value |-> v, res |-> NoneVal,
     had |-> k \in KeysOf(c), expired |-> FALSE, evicted |-> s.evicted,
     prevPut |-> NoPut]

NoSleep == 0 - 1
NoOutcome == [kind |-> "none", value |-> NoneVal, cached |-> FALSE]
NoReq == [key |-> NoKey, use_cache |-> FALSE]

Threads == 1..NumThreads

\* the locals of a thread inside _get_cached or _set_cached, and how its
\* latest call ended
NoLocals ==
    [key |-> NoKey, victims |-> <<>>, ended |-> "", sawEviction |-> FALSE]

\* the value None of the global _client
NoClient == 0

\* the pattern matcher before it is used
NoFinding ==
    [id |-> 0, content |-> "", tags |-> <<>>, protocol_name |-> "",
     quality_score |-> 0, rarity_score |-> 0, impact |-> ""]
NoRelevance ==
    [score |-> 0 - 1, keyword_score |-> 0, tag_score |-> 0, protocol_score |-> 0,
     matched |-> 0, reasons |-> <<>>]
NoResults == [kind |-> "none", error |-> "", findings |-> <<>>]

\* no body in hand, nothing sent
Nothing == [kind |-> "nothing"]

InitSearch ==
    /\ pc = "idle" /\ req = NoReq /\ attempt = 0 /\ calls = 0 /\ got = ""
    /\ all429 = TRUE
    /\ nsleeps = 0 /\ slept = NoSleep /\ outcome = NoOutcome
InitThreads ==
    /\ tpc = [t \in Threads |-> "idle"]
    /\ tloc = [t \in Threads |-> NoLocals]
InitClient ==
    /\ client = NoClient /\ made = {} /\ built = 0
    /\ cpc = [t \in Threads |-> "idle"]
    /\ cret = [t \in Threads |-> NoClient]
InitMatch ==
    /\ vulnerability_description = "" /\ snippet = "" /\ inferred_tags = <<>>
    /\ keywords = <<>>
    /\ candidate = NoFinding /\ relevance = NoRelevance /\ previous = NoRelevance
    /\ min_similarity = 0 /\ results = NoResults /\ matches = <<>>
    /\ report = <<>> /\ mpc = "off"

InitIo ==
    /\ response = Nothing /\ payload = Nothing /\ forward_payload = Nothing
    /\ sent = Nothing

\* after SoloditClient.__init__: an empty cache and the TTL the caller chose
Init ==
    /\ cache = <<>> /\ now = 0 /\ ttl \in TTLs /\ last = NoOp
    /\ InitSearch /\ InitThreads /\ InitClient /\ InitMatch /\ InitIo

\* ------------------------------------------- the client used by one caller
\* time passes (between the end of a search and its return no time is
\* counted: it would pass unobserved, and can pass after the return)
Tick ==
    /\ now < MaxTime /\ pc # "done"
    /\ now' = now + 1
    /\ last' = NoOp
    /\ UNCHANGED <<cache, ttl, searchVars, threadVars, clientVars, matchVars, ioVars>>

\* a call of _get_cached
Get(k) ==
    /\ pc = "idle"
    /\ LET g == get_cached(cache, k, now, ttl) IN
       /\ cache' = g.cache
       /\ last' = GetOp("call", k, g, cache, last)
    /\ UNCHANGED <<now, ttl, searchVars, threadVars, clientVars, matchVars, ioVars>>

\* a call of _set_cached
Put(k, v) ==
    /\ pc = "idle"
    /\ LET s == set_cached(cache, k, v, now) IN
       /\ cache' = s.cache
       /\ last' = PutOp("call", k, v, s, cache)
    /\ UNCHANGED <<now, ttl, searchVars, threadVars, clientVars, matchVars, ioVars>>

\* search_findings up to the call of _make_request: build the request,
\* look in the cache, return a cached result
SearchBegin(page, page_size, use_cache) ==
    /\ pc = "idle"
    /\ LET key == get_cache_key("/findings", request_data(page, page_size))
           g == get_cached(cache, key, now, ttl)
       IN
       /\ req' = [key |-> key, use_cache |-> use_cache]
       /\ attempt' = 0 /\ calls' = 0 /\ got' = "" /\ all429' = TRUE
       /\ nsleeps' = 0 /\ slept' = NoSleep
       /\ IF use_cache
          THEN /\ cache' = g.cache
               /\ last' = GetOp("search", key, g, cache, last)
               /\ IF Truthy(g.res)
                  THEN /\ pc' = "done"
                       /\ outcome' = [kind |-> "result", value |-> g.res, cached |-> TRUE]
                  ELSE /\ pc' = "request"
                       /\ outcome' = NoOutcome
          ELSE /\ cache' = cache
               /\ last' = NoOp
               /\ pc' = "request"
               /\ outcome' = NoOutcome
    /\ UNCHANGED <<now, ttl, threadVars, clientVars, matchVars, ioVars>>

\* variant of Attempt with a slip: the result is cached whether or not the
\* caller asked for caching
Attempt_always_caches(resp) ==
    /\ pc = "request"
    /\ attempt \in Attempts
    /\ calls' = calls + 1
    /\ got' = Tag(resp)
    /\ all429' = (all429 /\ resp.kind = "http" /\ resp.status = 429)
    /\ LET it == Iteration(attempt, resp) IN
       CASE it.next = "retry" ->
              /\ nsleeps' = nsleeps + 1 /\ slept' = it.sleep
              /\ attempt' = attempt + 1
              /\ last' = NoOp
              /\ IF attempt + 1 \in Attempts
                 THEN UNCHANGED <<pc, outcome>>
                 ELSE /\ pc' = "done"
                      /\ outcome' = [kind |-> "MaxRetriesExceeded",
                                     value |-> NoneVal, cached |-> FALSE]
              /\ UNCHANGED cache
         [] it.next = "raise" ->
              /\ pc' = "done"
              /\ outcome' = [kind |-> it.error, value |-> NoneVal, cached |-> FALSE]
              /\ last' = NoOp
              /\ slept' = NoSleep
              /\ UNCHANGED <<cache, attempt, nsleeps>>
         [] it.next = "return" ->
              LET result == SearchResultOf(it.body)
                  s == set_cached(cache, req.key, result, now)
              IN
              /\ pc' = "done"
              /\ outcome' = [kind |-> "result", value |-> result, cached |-> FALSE]
              /\ IF TRUE
                 THEN cache' = s.cache /\ last' = PutOp("search", req.key, result, s, cache)
                 ELSE cache' = cache /\ last' = NoOp
              /\ slept' = NoSleep
              /\ UNCHANGED <<attempt, nsleeps>>
    /\ UNCHANGED <<now, ttl, req, threadVars, clientVars, matchVars, ioVars>>

\* one iteration of the loop of _make_request and what follows it: after a
\* "continue" in the last iteration the loop ends and line 246 raises; when
\* the iteration returns the response, the rest of search_findings builds
\* the result and caches it
Attempt(resp) ==
    /\ pc = "request"
    /\ attempt \in Attempts
    /\ calls' = calls + 1
    /\ got' = Tag(resp)
    /\ all429' = (all429 /\ resp.kind = "http" /\ resp.status = 429)
    /\ LET it == Iteration(attempt, resp) IN
       CASE it.next = "retry" ->
              /\ nsleeps' = nsleeps + 1 /\ slept' = it.sleep
              /\ attempt' = attempt + 1
              /\ last' = NoOp
              /\ IF attempt + 1 \in Attempts
                 THEN UNCHANGED <<pc, outcome>>
                 ELSE /\ pc' = "done"
                      /\ outcome' = [kind |-> "MaxRetriesExceeded",
                                     value |-> NoneVal, cached |-> FALSE]
              /\ UNCHANGED cache
         [] it.next = "raise" ->
              /\ pc' = "done"
              /\ outcome' = [kind |-> it.error, value |-> NoneVal, cached |-> FALSE]
              /\ last' = NoOp
              /\ slept' = NoSleep
              /\ UNCHANGED <<cache, attempt, nsleeps>>
         [] it.next = "return" ->
              LET result == SearchResultOf(it.body)
                  s == set_cached(cache, req.key, result, now)
              IN
              /\ pc' = "done"
              /\ outcome' = [kind |-> "result", value |-> result, cached |-> FALSE]
              /\ IF req.use_cache
                 THEN cache' = s.cache /\ last' = PutOp("search", req.key, result, s, cache)
                 ELSE cache' = cache /\ last' = NoOp
              /\ slept' = NoSleep
              /\ UNCHANGED <<attempt, nsleeps>>
    /\ UNCHANGED <<now, ttl, req, threadVars, clientVars, matchVars, ioVars>>

\* the search returns or raises: its locals are gone
SearchReturn ==
    /\ pc = "done"
    /\ pc' = "idle" /\ req' = NoReq /\ attempt' = 0 /\ calls' = 0 /\ got' = ""
    /\ all429' = TRUE /\ nsleeps' = 0 /\ slept' = NoSleep /\ outcome' = NoOutcome
    /\ UNCHANGED <<cacheVars, threadVars, clientVars, matchVars, ioVars>>

\* the cache on its own: calls of _get_cached and _set_cached
CacheNext ==
    \/ Tick
    \/ \E k \in CacheKeys : Get(k)
    \/ \E k \in CacheKeys, v \in Values : Put(k, v)

CacheSpec == Init /\ [][CacheNext]_vars

\* searches of one caller
Next ==
    \/ Tick
    \/ \E p \in PageArgs, s \in PageSizeArgs, u \in BOOLEAN : SearchBegin(p, s, u)
    \/ \E resp \in Responses : Attempt(resp)
    \/ SearchReturn

Spec == Init /\ [][Next]_vars

\* the answers to these searches: a page of findings, or a server error
ArgResponses ==
    {HttpResponse(200, "absent", v) : v \in Values}
    \cup {HttpResponse(500, "absent", NoneVal)}

\* searches with any page and any page size, the clock standing still
ArgNext ==
    \/ \E p \in AnyPageArgs, s \in AnyPageSizeArgs, u \in BOOLEAN : SearchBegin(p, s, u)
    \/ \E resp \in ArgResponses : Attempt(resp)
    \/ SearchReturn

ArgSpec == Init /\ [][ArgNext]_vars

\* the calling thread runs the retry loop without being held up
FairSpec ==
    Spec /\ WF_vars(\E resp \in Responses : Attempt(resp)) /\ WF_vars(SearchReturn)

\* ------------------------------------- several threads on the shared store
\* The statements of _get_cached and _set_cached, one step each; the source
\* takes no lock, so the steps of different threads interleave freely.

\* some other thread has found the store too large and has not yet finished
\* deleting the oldest entries
EvictionRunning(t) == \E u \in Threads \ {t} : tpc[u] \in {"p_sort", "p_del"}

Saw(t) == tloc[t].sawEviction \/ EvictionRunning(t)

Ended(t, how) == [NoLocals EXCEPT !.ended = how, !.sawEviction = Saw(t)]

\* line 156: if cache_key not in self._cache: return None
ThreadGetTest(t, k) ==
    /\ tpc[t] = "idle"
    /\ IF k \in KeysOf(cache)
       THEN /\ tpc' = [tpc EXCEPT ![t] = "g_read"]
            /\ tloc' = [tloc EXCEPT ![t] = [NoLocals EXCEPT !.key = k,
                                             !.sawEviction = EvictionRunning(t)]]
       ELSE /\ tpc' = tpc
            /\ tloc' = [tloc EXCEPT ![t] = [NoLocals EXCEPT !.ended = "returned",
                                             !.sawEviction = EvictionRunning(t)]]
    /\ UNCHANGED <<cache, now, ttl, last, searchVars, clientVars, matchVars, ioVars>>

\* line 159: result, timestamp = self._cache[cache_key], a KeyError when
\* the key is no longer there; line 160: the test of the age
ThreadGetRead(t) ==
    /\ tpc[t] = "g_read"
    /\ IF tloc[t].key \notin KeysOf(cache)
       THEN /\ tpc' = [tpc EXCEPT ![t] = "idle"]
            /\ tloc' = [tloc EXCEPT ![t] = Ended(t, "KeyError")]
       ELSE LET e == cache[IndexOf(cache, tloc[t].key)] IN
            IF IsExpired(e, now, ttl)
            THEN /\ tpc' = [tpc EXCEPT ![t] = "g_del"]
                 /\ tloc' = [tloc EXCEPT ![t].sawEviction = Saw(t)]
            ELSE /\ tpc' = [tpc EXCEPT ![t] = "idle"]
                 /\ tloc' = [tloc EXCEPT ![t] = Ended(t, "returned")]
    /\ UNCHANGED <<cache, now, ttl, last, searchVars, clientVars, matchVars, ioVars>>

\* line 162: del self._cache[cache_key], a KeyError when the key is no
\* longer there
ThreadGetDel(t) ==
    /\ tpc[t] = "g_del"
    /\ tpc' = [tpc EXCEPT ![t] = "idle"]
    /\ IF tloc[t].key \in KeysOf(cache)
       THEN /\ cache' = SelectSeq(cache, LAMBDA x : x.key # tloc[t].key)
            /\ tloc' = [tloc EXCEPT ![t] = Ended(t, "returned")]
       ELSE /\ cache' = cache
            /\ tloc' = [tloc EXCEPT ![t] = Ended(t, "KeyError")]
    /\ UNCHANGED <<now, ttl, last, searchVars, clientVars, matchVars, ioVars>>

\* line 170: self._cache[cache_key] = (result, time.time())
ThreadPutStore(t, k, v) ==
    /\ tpc[t] = "idle"
    /\ cache' = StoreEntry(cache, k, v, now)
    /\ tpc' = [tpc EXCEPT ![t] = "p_len"]
    /\ tloc' = [tloc EXCEPT ![t] = [NoLocals EXCEPT !.key = k]]
    /\ UNCHANGED <<now, ttl, last, searchVars, clientVars, matchVars, ioVars>>

\* line 173: if len(self._cache) > 1000
ThreadPutLen(t) ==
    /\ tpc[t] = "p_len"
    /\ IF Len(cache) > MaxEntries
       THEN /\ tpc' = [tpc EXCEPT ![t] = "p_sort"]
            /\ tloc' = [tloc EXCEPT ![t].sawEviction = Saw(t)]
       ELSE /\ tpc' = [tpc EXCEPT ![t] = "idle"]
            /\ tloc' = [tloc EXCEPT ![t] = Ended(t, "returned")]
    /\ UNCHANGED <<cache, now, ttl, last, searchVars, clientVars, matchVars, ioVars>>

\* line 175: sorted_items = sorted(self._cache.items(), ...), of which the
\* loop of line 176 takes the first 100
ThreadPutSort(t) ==
    /\ tpc[t] = "p_sort"
    /\ tpc' = [tpc EXCEPT ![t] = "p_del"]
    /\ tloc' = [tloc EXCEPT ![t].victims = EvictionVictims(cache),
                            ![t].sawEviction = Saw(t)]
    /\ UNCHANGED <<cache, now, ttl, last, searchVars, clientVars, matchVars, ioVars>>

\* line 177: del self._cache[key] for the next of these entries, a KeyError
\* when the key is no longer there
ThreadPutDel(t) ==
    /\ tpc[t] = "p_del"
    /\ IF tloc[t].victims = <<>>
       THEN /\ tpc' = [tpc EXCEPT ![t] = "idle"]
            /\ tloc' = [tloc EXCEPT ![t] = Ended(t, "returned")]
            /\ cache' = cache
       ELSE LET k == Head(tloc[t].victims).key IN
            IF k \in KeysOf(cache)
            THEN /\ cache' = SelectSeq(cache, LAMBDA x : x.key # k)
                 /\ tloc' = [tloc EXCEPT ![t].victims = Tail(@)]
                 /\ tpc' = tpc
            ELSE /\ cache' = cache
                 /\ tpc' = [tpc EXCEPT ![t] = "idle"]
                 /\ tloc' = [tloc EXCEPT ![t] = Ended(t, "KeyError")]
    /\ UNCHANGED <<now, ttl, last, searchVars, clientVars, matchVars, ioVars>>

\* the threads all store one value: no step of _get_cached or _set_cached
\* looks at the value of an entry
ThreadValues == {1}

ThreadTick ==
    /\ now < MaxTime
    /\ now' = now + 1
    /\ UNCHANGED <<cache, ttl, last, searchVars, threadVars, clientVars, matchVars, ioVars>>

ThreadNext ==
    \/ ThreadTick
    \/ \E t \in Threads, k \in CacheKeys : ThreadGetTest(t, k)
    \/ \E t \in Threads : ThreadGetRead(t)
    \/ \E t \in Threads : ThreadGetDel(t)
    \/ \E t \in Threads, k \in CacheKeys, v \in ThreadValues : ThreadPutStore(t, k, v)
    \/ \E t \in Threads : ThreadPutLen(t)
    \/ \E t \in Threads : ThreadPutSort(t)
    \/ \E t \in Threads : ThreadPutDel(t)

ThreadSpec == Init /\ [][ThreadNext]_vars

\* ------------------------------------------ get_client and reset_client
\* before the module is used: _client is None
ClientInit ==
    /\ cache = <<>> /\ now = 0 /\ ttl = 1 /\ last = NoOp
    /\ InitSearch /\ InitThreads /\ InitClient /\ InitMatch /\ InitIo

\* line 499: if _client is None
GetClientTest(t) ==
    /\ cpc[t] = "idle"
    /\ cpc' = [cpc EXCEPT ![t] = IF client = NoClient THEN "construct" ELSE "return"]
    /\ UNCHANGED <<client, cret, made, built, cacheVars, searchVars, threadVars, matchVars, ioVars>>

\* line 500: _client = SoloditClient(...); without an API key the
\* constructor raises and _client stays as it is
GetClientConstruct(t, has_key) ==
    /\ cpc[t] = "construct"
    /\ built < MaxClients
    /\ IF has_key
       THEN /\ built' = built + 1
            /\ client' = built + 1
            /\ made' = made \cup {built + 1}
            /\ cpc' = [cpc EXCEPT ![t] = "return"]
       ELSE /\ cpc' = [cpc EXCEPT ![t] = "idle"]
            /\ UNCHANGED <<client, made, built>>
    /\ UNCHANGED <<cret, cacheVars, searchVars, threadVars, matchVars, ioVars>>

\* line 501: return _client
GetClientReturn(t) ==
    /\ cpc[t] = "return"
    /\ cpc' = [cpc EXCEPT ![t] = "idle"]
    /\ cret' = [cret EXCEPT ![t] = client]
    /\ UNCHANGED <<client, made, built, cacheVars, searchVars, threadVars, matchVars, ioVars>>

\* reset_client: _client = None
ResetClient ==
    /\ client' = NoClient
    /\ made' = {}
    /\ cret' = [t \in Threads |-> NoClient]
    /\ UNCHANGED <<cpc, built, cacheVars, searchVars, threadVars, matchVars, ioVars>>

ClientNext ==
    \/ \E t \in Threads : GetClientTest(t)
    \/ \E t \in Threads, has_key \in BOOLEAN : GetClientConstruct(t, has_key)
    \/ \E t \in Threads : GetClientReturn(t)
    \/ ResetClient

ClientSpec == ClientInit /\ [][ClientNext]_vars

\* ------------------------------------------------- pattern matcher: texts
\* A text is a string; Len, SubSeq, Head, Tail and \o work on it character
\* by character.
UpperLetters == "ABCDEFGHIJKLMNOPQRSTUVWXYZ"
LowerLetters == "abcdefghijklmnopqrstuvwxyz"
DigitChars == "0123456789"

CharAt(s, i) == SubSeq(s, i, i)
CharsOf(s) == {CharAt(s, i) : i \in 1..Len(s)}

\* the lower-case letter of each upper-case letter
LowerOf ==
    [c \in CharsOf(UpperLetters) |->
        CharAt(LowerLetters, CHOOSE i \in 1..Len(UpperLetters) : CharAt(UpperLetters, i) = c)]

LowerChar(c) == IF c \in DOMAIN LowerOf THEN LowerOf[c] ELSE c

\* str.lower(), the text taken in halves
RECURSIVE lower(_)
lower(s) ==
    IF Len(s) <= 1 THEN LowerChar(s)
    ELSE lower(SubSeq(s, 1, Len(s) \div 2)) \o lower(SubSeq(s, Len(s) \div 2 + 1, Len(s)))

\* "k in t" for two strings
Occurs(k, t) ==
    \E i \in 1..(Len(t) - Len(k) + 1) : SubSeq(t, i, i + Len(k) - 1) = k

\* the characters \s and \w of a regular expression stand for
Whitespace == {" ", "\t", "\n"}
WordChars == CharsOf(UpperLetters) \cup CharsOf(LowerLetters) \cup CharsOf(DigitChars) \cup {"_"}

\* the last position of the longest run of characters of S that starts at
\* position i of t; i - 1 when there is none
RunEnd(t, i, S) ==
    IF \E j \in i..Len(t) : CharAt(t, j) \notin S
    THEN (CHOOSE j \in i..Len(t) :
             /\ CharAt(t, j) \notin S
             /\ \A h \in i..(j - 1) : CharAt(t, h) \in S) - 1
    ELSE Len(t)

\* the positions from i on where p is found in t
Found(p, t, i) == {j \in i..(Len(t) - Len(p) + 1) : SubSeq(t, j, j + Len(p) - 1) = p}

Least(S) == CHOOSE j \in S : \A h \in S : j <= h

\* re.findall(p, t) for a pattern p that matches one literal text: every
\* occurrence from position i on, left to right, not overlapping
RECURSIVE findall(_, _, _)
findall(p, t, i) ==
    IF Found(p, t, i) = {} THEN <<>>
    ELSE <<p>> \o findall(p, t, Least(Found(p, t, i)) + Len(p))

\* where re.findall(r"function\s+(\w+)", t) can match: "function" at j, then
\* white space, then a word
FunctionAt(t, j) ==
    /\ SubSeq(t, j, j + 7) = "function"
    /\ RunEnd(t, j + 8, Whitespace) >= j + 8
    /\ RunEnd(t, RunEnd(t, j + 8, Whitespace) + 1, WordChars)
          >= RunEnd(t, j + 8, Whitespace) + 1

\* re.findall(r"function\s+(\w+)", t) from position i on: the word of each
\* match, the next match sought after the end of the one before
RECURSIVE function_names(_, _)
function_names(t, i) ==
    LET at == {j \in i..(Len(t) - 7) : FunctionAt(t, j)} IN
    IF at = {} THEN <<>>
    ELSE LET ws == RunEnd(t, Least(at) + 8, Whitespace)
             we == RunEnd(t, ws + 1, WordChars)
         IN <<SubSeq(t, ws + 1, we)>> \o function_names(t, we + 1)

\* a list without its repeated elements, the first of each kept
\* (the seen-set loop of _infer_tags, dict.fromkeys of _extract_keywords)
RECURSIVE Unique(_)
Unique(s) ==
    IF s = <<>> THEN <<>>
    ELSE LET r == Unique(SubSeq(s, 1, Len(s) - 1))
             x == s[Len(s)]
         IN IF \E i \in 1..Len(r) : r[i] = x THEN r ELSE Append(r, x)

Range(s) == {s[i] : i \in 1..Len(s)}

\* ---------------------------------------------- pattern matcher: the query
VULNERABILITY_PATTERNS == <<
    [name |-> "reentrancy",
     tags |-> <<"Reentrancy", "CEI", "External Call">>,
     keywords |-> <<"reentrancy", "re-entrancy", "callback", "external call", "receive()">>],
    [name |-> "access_control",
     tags |-> <<"Access Control", "Authentication", "Admin", "Authorization">>,
     keywords |-> <<"access control", "onlyowner", "auth", "permission", "unauthorized">>],
    [name |-> "oracle",
     tags |-> <<"Oracle", "Price Manipulation", "TWAP", "Price Feed">>,
     keywords |-> <<"oracle", "price", "manipulation", "spot price", "chainlink">>],
    [name |-> "flash_loan",
     tags |-> <<"Flash Loan", "Price Manipulation">>,
     keywords |-> <<"flash loan", "flashloan", "atomic">>],
    [name |-> "rounding",
     tags |-> <<"Rounding", "Precision", "Decimals", "Division">>,
     keywords |-> <<"rounding", "precision", "division before", "decimals">>],
    [name |-> "overflow",
     tags |-> <<"Overflow", "Underflow", "SafeMath">>,
     keywords |-> <<"overflow", "underflow", "safemath", "unchecked">>],
    [name |-> "delegatecall",
     tags |-> <<"Delegatecall", "Proxy", "DELEGATECALL">>,
     keywords |-> <<"delegatecall", "delegate call", "proxy">>],
    [name |-> "signature",
     tags |-> <<"Signature", "ECDSA", "EIP-712", "ecrecover">>,
     keywords |-> <<"signature", "ecdsa", "ecrecover", "replay">>],
    [name |-> "frontrunning",
     tags |-> <<"Frontrunning", "MEV", "Sandwich">>,
     keywords |-> <<"frontrun", "mev", "sandwich", "front-run">>],
    [name |-> "dos",
     tags |-> <<"DOS", "Gas Limit", "Denial-Of-Service", "DoS">>,
     keywords |-> <<"dos", "denial", "gas limit", "unbounded loop">>],
    [name |-> "timestamp",
     tags |-> <<"Timestamp", "block.timestamp", "Time">>,
     keywords |-> <<"timestamp", "block.timestamp", "time manipulation">>],
    [name |-> "randomness",
     tags |-> <<"Randomness", "Cryptography", "Predictable">>,
     keywords |-> <<"random", "predictable", "blockhash", "weak randomness">>],
    [name |-> "approval",
     tags |-> <<"Approve", "Allowance", "ERC20">>,
     keywords |-> <<"approve", "allowance", "approve max">>],
    [name |-> "collateral",
     tags |-> <<"Collateral", "Liquidation", "Lending">>,
     keywords |-> <<"collateral", "liquidation", "lending", "borrow">>],
    [name |-> "governance",
     tags |-> <<"Governance", "Voting", "Timelock", "Proposal">>,
     keywords |-> <<"governance", "voting", "proposal", "timelock">>]
>>

\* unique_tags[:5]
MaxTags == 5

\* the tags list of _infer_tags before the duplicates go: the tags of every
\* class from the i-th on that has a keyword in the text
RECURSIVE class_tags(_, _)
class_tags(i, text) ==
    IF i > Len(VULNERABILITY_PATTERNS) THEN <<>>
    ELSE LET data == VULNERABILITY_PATTERNS[i] IN
         (IF \E j \in 1..Len(data.keywords) : Occurs(lower(data.keywords[j]), text)
          THEN data.tags ELSE <<>>)
         \o class_tags(i + 1, text)

\* variant of infer_tags with a slip: the tags are added for every keyword
\* that matches (no break) and the duplicates are not removed
RECURSIVE class_tags_nobreak(_, _)
class_tags_nobreak(i, text) ==
    IF i > Len(VULNERABILITY_PATTERNS) THEN <<>>
    ELSE LET data == VULNERABILITY_PATTERNS[i]
             hits == SelectSeq(data.keywords, LAMBDA keyword : Occurs(lower(keyword), text))
         IN (IF Len(hits) = 0 THEN <<>>
             ELSE IF Len(hits) = 1 THEN data.tags
             ELSE data.tags \o data.tags)
            \o class_tags_nobreak(i + 1, text)
infer_tags_nobreak(description, code_snippet) ==
    Prefix(class_tags_nobreak(1, lower(description \o " " \o code_snippet)), MaxTags)

\* _infer_tags; code_snippet None is the empty text
infer_tags(description, code_snippet) ==
    Prefix(Unique(class_tags(1, lower(description \o " " \o code_snippet))), MaxTags)

\* the taxonomy keywords of _extract_keywords: every keyword of every class,
\* from the i-th class on, that occurs in the text
RECURSIVE class_keywords(_, _)
class_keywords(i, text_lower) ==
    IF i > Len(VULNERABILITY_PATTERNS) THEN <<>>
    ELSE SelectSeq(VULNERABILITY_PATTERNS[i].keywords,
                   LAMBDA keyword : Occurs(lower(keyword), text_lower))
         \o class_keywords(i + 1, text_lower)

\* _extract_keywords
extract_keywords(text) ==
    Unique(class_keywords(1, lower(text))
           \o function_names(text, 1)
           \o findall(".call{value:", text, 1)
           \o findall("delegatecall", text, 1)
           \o findall("transfer(", text, 1)
           \o findall("require(", text, 1))

\* ------------------------------------------ pattern matcher: the relevance
\* A score is a whole number of ScoreUnit-ths: the source computes it in
\* floating point, the model exactly (the divisions below leave no remainder
\* for lists of up to 8 keywords or tags).  quality_score and rarity_score
\* are in tenths, 0 to 50 for the 0 to 5 of the data model.
ScoreUnit == 840000
Hundredths(n) == n * (ScoreUnit \div 100)

\* a SoloditFinding, with the fields the matcher reads; protocol_name None
\* is the empty text; the impact, which the scoring does not read, is HIGH
\* where nothing else is said
Finding(id, content, tags, protocol_name, quality_score, rarity_score) ==
    [id |-> id, content |-> content, tags |-> tags, protocol_name |-> protocol_name,
     quality_score |-> quality_score, rarity_score |-> rarity_score,
     impact |-> "HIGH"]

protocol_indicators == <<"defi", "nft", "lending", "dex", "yield", "staking">>

\* 1. keyword overlap: the keywords of the query found in the content
matching_keywords(finding, query_keywords) ==
    SelectSeq(query_keywords, LAMBDA k : Occurs(lower(k), lower(finding.content)))

\* variant of keyword_score with a slip: the ratio upside down
keyword_score_upside_down(matching, query_keywords) ==
    IF matching # <<>> /\ query_keywords # <<>>
    THEN (Len(query_keywords) * Hundredths(35)) \div Len(matching)
    ELSE 0

keyword_score(matching, query_keywords) ==
    IF matching # <<>> /\ query_keywords # <<>>
    THEN (Len(matching) * Hundredths(35)) \div Len(query_keywords)
    ELSE 0

\* variant of matching_tags with a slip: only the tags of the finding are
\* lower-cased
matching_tags_one_side(finding, query_tags) ==
    Range(query_tags) \cap {lower(t) : t \in Range(finding.tags)}

\* 2. tag overlap: the lower-cased tags the query and the finding share
matching_tags(finding, query_tags) ==
    {lower(t) : t \in Range(query_tags)} \cap {lower(t) : t \in Range(finding.tags)}

tag_score(finding, query_tags) ==
    IF query_tags # <<>> /\ finding.tags # <<>> /\ matching_tags(finding, query_tags) # {}
    THEN (Cardinality(matching_tags(finding, query_tags)) * Hundredths(30)) \div Len(query_tags)
    ELSE 0

\* 3. protocol type: the indicators that are in the description and in the
\* protocol name of the finding; the loop stops at the first
matching_indicators(finding, description) ==
    SelectSeq(protocol_indicators,
              LAMBDA ind : Occurs(ind, lower(description))
                           /\ Occurs(ind, lower(finding.protocol_name)))

protocol_score(finding, description) ==
    IF matching_indicators(finding, description) # <<>> THEN Hundredths(15) ELSE 0

\* 4. and 5. (score / 5.0) * 0.10, for a score in tenths
\* variant of quality_bonus with a slip: the weight 0.20
quality_bonus_double(finding) == finding.quality_score * (Hundredths(20) \div 50)

quality_bonus(finding) == finding.quality_score * (Hundredths(10) \div 50)

\* variant of rarity_bonus with a slip: the distance from the top score
rarity_bonus_from_top(finding) == (finding.rarity_score - 50) * (Hundredths(10) \div 50)

rarity_bonus(finding) == finding.rarity_score * (Hundredths(10) \div 50)

\* _calculate_relevance: min(score, 1.0) and the reasons in the order the
\* source appends them (the text of the tags reason names up to 3 of the
\* shared tags), with the components that made the score
calculate_relevance(finding, description, code_snippet, query_tags) ==
    LET query_keywords == extract_keywords(description)
        matching == matching_keywords(finding, query_keywords)
        kw == keyword_score(matching, query_keywords)
        tg == tag_score(finding, query_tags)
        pr == protocol_score(finding, description)
    IN [score |-> Min2(kw + tg + pr + quality_bonus(finding) + rarity_bonus(finding),
                       ScoreUnit),
        keyword_score |-> kw,
        tag_score |-> tg,
        protocol_score |-> pr,
        matched |-> Len(matching),
        reasons |->
           (IF kw > Hundredths(10)
            THEN <<[reason |-> "keywords", names |-> Range(Prefix(matching, 3))]>>
            ELSE <<>>)
           \o (IF tg > 0
               THEN <<[reason |-> "tags", names |-> matching_tags(finding, query_tags)]>>
               ELSE <<>>)
           \o (IF pr > 0
               THEN <<[reason |-> "protocol",
                       names |-> {Head(matching_indicators(finding, description))}]>>
               ELSE <<>>)]

\* ------------------------------- the relevance of one finding, on its own
Descriptions ==
    {"reentrancy in withdraw function",
     "access control on mint function, only owner check missing",
     "Oracle price manipulation in DeFi lending",
     "function withdraw sends before require(",
     "gas optimisation"}
Snippets == {"", "onlyOwner modifier"}

Contents ==
    {"an unrelated note",
     "Reentrancy through an external call in withdraw",
     "the price of an oracle",
     "spot price ORACLE manipulation when lending"}
TagLists == {<<>>, <<"Reentrancy">>, <<"oracle", "Price Manipulation", "Access Control">>}
ProtocolNames == {"", "DeFi Lending Pool"}
\* quality and rarity in tenths: 0, 2.5 and 5
ScoreValues == {0, 25, 50}

Candidates ==
    {Finding(1, c, t, p, q, r) :
        c \in Contents, t \in TagLists, p \in ProtocolNames,
        q \in ScoreValues, r \in ScoreValues}

\* query tags a caller of _calculate_relevance passes that no description
\* of the model gives
OtherTagLists == {<<"ORACLE">>}

\* everything but the pattern matcher at rest
RestInit ==
    /\ cache = <<>> /\ now = 0 /\ ttl = 1 /\ last = NoOp
    /\ InitSearch /\ InitThreads /\ InitClient
RestUnchanged == UNCHANGED <<cacheVars, searchVars, threadVars, clientVars, ioVars>>

ScoreInit ==
    /\ RestInit /\ InitIo
    /\ vulnerability_description \in Descriptions
    /\ snippet = ""
    /\ inferred_tags \in {infer_tags(vulnerability_description, "")} \cup OtherTagLists
    /\ keywords = <<>>
    /\ candidate \in Candidates
    /\ relevance = NoRelevance /\ previous = NoRelevance
    /\ min_similarity = 0 /\ results = NoResults /\ matches = <<>>
    /\ report = <<>> /\ mpc = "off"

\* a call of _calculate_relevance
Score ==
    /\ relevance = NoRelevance
    /\ relevance' = calculate_relevance(candidate, vulnerability_description, snippet,
                                        inferred_tags)
    /\ UNCHANGED <<vulnerability_description, snippet, inferred_tags, keywords, candidate,
                   previous, min_similarity, results, matches, report, mpc>>
    /\ RestUnchanged

\* a call of _calculate_relevance for the same finding with another content,
\* everything else as before
ScoreOtherContent(content) ==
    /\ relevance # NoRelevance /\ previous = NoRelevance
    /\ content # candidate.content
    /\ candidate' = [candidate EXCEPT !.content = content]
    /\ previous' = relevance
    /\ relevance' = calculate_relevance(candidate', vulnerability_description, snippet,
                                        inferred_tags)
    /\ UNCHANGED <<vulnerability_description, snippet, inferred_tags, keywords,
                   min_similarity, results, matches, report, mpc>>
    /\ RestUnchanged

ScoreNext ==
    \/ Score
    \/ \E content \in Contents : ScoreOtherContent(content)

ScoreSpec == ScoreInit /\ [][ScoreNext]_vars

\* ------------------------------------------- the matcher and its report
\* the longest page of findings a search of the model returns
MaxFindings == 2

\* the descriptions of the queries
QueryDescriptions ==
    {"reentrancy in withdraw function",
     "access control on mint function, only owner check missing",
     "Oracle price manipulation in DeFi lending",
     "function transfer( uses delegatecall then delegatecall in a proxy"}

\* the findings the service has: 1 and 2 differ in the id only
PageFindings ==
    {Finding(1, "Reentrancy through an external call in withdraw", <<"Reentrancy">>,
             "", 25, 50),
     Finding(2, "Reentrancy through an external call in withdraw", <<"Reentrancy">>,
             "", 25, 50),
     Finding(3, "spot price ORACLE manipulation when lending",
             <<"oracle", "Price Manipulation", "Access Control">>,
             "DeFi Lending Pool", 50, 50)}

Pages == UNION {[1..n -> PageFindings] : n \in 0..MaxFindings}

\* the errors client.search_findings can end with: those an iteration of
\* _make_request raises, and the one after its loop
SearchErrors ==
    ({Iteration(att, resp).error : att \in Attempts, resp \in Responses} \ {""})
    \cup {"MaxRetriesExceeded"}

\* how the search of a query can end
SearchOutcomes ==
    {[kind |-> "error", error |-> e, findings |-> <<>>] : e \in SearchErrors}
    \cup {[kind |-> "result", error |-> "", findings |-> p] : p \in Pages}

\* min_similarity: 0.1 and the default 0.5
MinSimilarities == {Hundredths(10), Hundredths(50)}

\* the default of --max-results
DefaultMaxResults == 10

\* variant of ExceptException with a slip: the clause names SoloditAPIError,
\* which a ValueError is not
ExceptSoloditAPIError(err) == err \in SearchErrors \ {"ValueError"}

\* "except Exception": every error a search ends with is an Exception
ExceptException(err) == err \in SearchErrors

PatternMatch(finding, rel) ==
    [finding |-> finding, relevance_score |-> rel.score, match_reasons |-> rel.reasons]

\* the loop over results.findings: a match for every finding whose score is
\* not below the threshold, in the order of the page
score_findings(findings, description, code_snippet, tags, threshold) ==
    SelectSeq([i \in 1..Len(findings) |->
                  PatternMatch(findings[i],
                               calculate_relevance(findings[i], description,
                                                   code_snippet, tags))],
              LAMBDA m : m.relevance_score >= threshold)

\* variant of sort_matches with a slip: sorted upwards and then reversed, so
\* matches with equal scores change places
RECURSIVE InsertBeforeEqual(_, _)
InsertBeforeEqual(m, s) ==
    IF s = <<>> THEN <<m>>
    ELSE IF Head(s).relevance_score > m.relevance_score
         THEN <<Head(s)>> \o InsertBeforeEqual(m, Tail(s))
         ELSE <<m>> \o s
RECURSIVE sort_matches_reversed(_)
sort_matches_reversed(ms) ==
    IF ms = <<>> THEN <<>>
    ELSE InsertBeforeEqual(ms[Len(ms)], sort_matches_reversed(SubSeq(ms, 1, Len(ms) - 1)))

\* matches.sort(key=relevance_score, reverse=True): list.sort is stable, also
\* with reverse=True, so m goes after every match whose score is not lower
RECURSIVE InsertByScore(_, _)
InsertByScore(m, s) ==
    IF s = <<>> THEN <<m>>
    ELSE IF Head(s).relevance_score >= m.relevance_score
         THEN <<Head(s)>> \o InsertByScore(m, Tail(s))
         ELSE <<m>> \o s
RECURSIVE sort_matches(_)
sort_matches(ms) ==
    IF ms = <<>> THEN <<>>
    ELSE InsertByScore(ms[Len(ms)], sort_matches(SubSeq(ms, 1, Len(ms) - 1)))

\* ------------------------------------------ the report: severity and checks
\* SoloditFinding.severity_int: {"HIGH": 3, ...}.get(self.impact, 0)
severity_int(finding) ==
    CASE finding.impact = "HIGH" -> 3
      [] finding.impact = "MEDIUM" -> 2
      [] finding.impact = "LOW" -> 1
      [] OTHER -> 0

RECURSIVE Sum(_)
Sum(s) == IF s = <<>> THEN 0 ELSE Head(s) + Sum(Tail(s))

\* variant of round with a slip: a half is rounded up
round_half_up(num, den) == (2 * num + den) \div (2 * den)

\* round(num / den) of Python 3 for num >= 0 and den > 0: to the nearest
\* integer, a half to the even one
round(num, den) ==
    LET q == num \div den
        r == num % den
    IN IF 2 * r < den THEN q
       ELSE IF 2 * r > den THEN q + 1
       ELSE IF q % 2 = 0 THEN q ELSE q + 1

\* _avg_severity
avg_severity(match_list) ==
    IF match_list = <<>> THEN "N/A"
    ELSE LET severities == [i \in 1..Len(match_list) |-> severity_int(match_list[i].finding)]
             avg == round(Sum(severities), Len(severities))
         IN CASE avg = 3 -> "HIGH"
              [] avg = 2 -> "MEDIUM"
              [] avg = 1 -> "LOW"
              [] avg = 0 -> "GAS/INFO"
              [] OTHER -> "UNKNOWN"

\* the characters of the check lines, in the order of their codes
Ascii ==
    " '()-.0123456789ABCDEFGHIJKLMNOPQRSTUVWXYZabcdefghijklmnopqrstuvwxyz"

ord(c) == CHOOSE i \in 1..Len(Ascii) : CharAt(Ascii, i) = c

\* a < b of two str: by the first character that differs, a proper prefix
\* being smaller
StrLess(a, b) ==
    LET n == Min2(Len(a), Len(b))
        differ == {i \in 1..n : CharAt(a, i) # CharAt(b, i)}
    IN IF differ = {} THEN Len(a) < Len(b)
       ELSE ord(CharAt(a, Least(differ))) < ord(CharAt(b, Least(differ)))

\* sorted(set of str)
RECURSIVE sorted(_)
sorted(S) ==
    IF S = {} THEN <<>>
    ELSE LET m == CHOOSE x \in S : \A y \in S \ {x} : StrLess(x, y)
         IN <<m>> \o sorted(S \ {m})

\* the conditions of _recommended_checks and the checks each adds (the
\* check mark that follows the number in the source is left out: it is the
\* same in every line)
CheckFamilies ==
    <<[words |-> {"reentrancy"},
       checks |-> {"1. Verify CEI pattern (Checks-Effects-Interactions)",
                   "2. Check for reentrancy guards (nonReentrant modifier)"}],
      [words |-> {"access control"},
       checks |-> {"3. Verify access control modifiers on all privileged functions",
                   "4. Check that ownership can't be transferred to address(0)"}],
      [words |-> {"oracle"},
       checks |-> {"5. Validate oracle price staleness (updatedAt check)",
                   "6. Check for TWAP usage instead of spot prices"}],
      [words |-> {"rounding", "precision"},
       checks |-> {"7. Verify multiplication before division",
                   "8. Check for precision loss in calculations"}],
      [words |-> {"flash loan"},
       checks |-> {"9. Validate price can't be manipulated in single transaction",
                   "10. Check for flash loan protection mechanisms"}]>>

FallbackCheck == "1. Proceed with standard 6-step verification harness"

\* variant of recommended_checks with a slip: the tags are not lower-cased
recommended_checks_cased(match_list) ==
    LET fires(f) == \E i \in 1..Len(match_list) :
                       \E t \in Range(match_list[i].finding.tags) :
                          \E w \in CheckFamilies[f].words : Occurs(w, t)
        checks == UNION {CheckFamilies[f].checks : f \in {g \in DOMAIN CheckFamilies : fires(g)}}
    IN sorted(IF checks = {} THEN {FallbackCheck} ELSE checks)

\* _recommended_checks: the lines of the block
recommended_checks(match_list) ==
    LET fires(f) == \E i \in 1..Len(match_list) :
                       \E t \in Range(match_list[i].finding.tags) :
                          \E w \in CheckFamilies[f].words : Occurs(w, lower(t))
        checks == UNION {CheckFamilies[f].checks : f \in {g \in DOMAIN CheckFamilies : fires(g)}}
    IN sorted(IF checks = {} THEN {FallbackCheck} ELSE checks)

Section(heading, items) == [heading |-> heading, items |-> items]

\* the entries under "Top Historical Matches": matches[:5], numbered from 1
TopMatches(match_list) ==
    [i \in 1..Min2(5, Len(match_list)) |->
        [rank |-> i, id |-> match_list[i].finding.id,
         relevance_score |-> match_list[i].relevance_score,
         match_reasons |-> match_list[i].match_reasons]]

\* variant of generate_report with a slip: no test for an empty list
generate_report_untested(hypothesis_id, match_list, include_details) ==
    <<Section("## Pattern Matching Report", <<hypothesis_id>>),
      Section("**Status**: similar historical finding(s) identified", <<Len(match_list)>>),
      Section("### Summary Statistics", <<avg_severity(match_list)>>),
      Section("### Top Historical Matches", TopMatches(match_list))>>
    \o (IF include_details
        THEN <<Section("### Historical Impact Analysis", <<Len(match_list)>>),
               Section("### Common Vulnerability Patterns", <<>>),
               Section("### Recommended Verification Steps",
                       recommended_checks(match_list)),
               Section("### Next Steps", <<>>)>>
        ELSE <<>>)

\* generate_report: the report as the list of its sections, each with the
\* values the source puts into it (of the statistics the average severity;
\* the other statistics and the lines of the patterns are not part of this
\* list)
generate_report(hypothesis_id, match_list, include_details) ==
    IF match_list = <<>>
    THEN <<Section("## Pattern Matching Report", <<hypothesis_id>>),
           Section("**Status**: No similar historical findings found", <<>>),
           Section("**Analysis**", <<>>),
           Section("**Recommendation**", <<>>)>>
    ELSE <<Section("## Pattern Matching Report", <<hypothesis_id>>),
           Section("**Status**: similar historical finding(s) identified",
                   <<Len(match_list)>>),
           Section("### Summary Statistics", <<avg_severity(match_list)>>),
           Section("### Top Historical Matches", TopMatches(match_list))>>
         \o (IF include_details
             THEN <<Section("### Historical Impact Analysis", <<Len(match_list)>>),
                    Section("### Common Vulnerability Patterns", <<>>),
                    Section("### Recommended Verification Steps",
                       recommended_checks(match_list)),
                    Section("### Next Steps", <<>>)>>
             ELSE <<>>)

\* a query: the description, the code excerpt and the threshold the caller
\* passes
MatchInit ==
    /\ RestInit /\ InitIo
    /\ vulnerability_description \in QueryDescriptions
    /\ snippet \in Snippets
    /\ min_similarity \in MinSimilarities
    /\ inferred_tags = <<>> /\ keywords = <<>>
    /\ candidate = NoFinding /\ relevance = NoRelevance /\ previous = NoRelevance
    /\ results = NoResults /\ matches = <<>> /\ report = <<>> /\ mpc = "start"

\* variant of query_text with a slip: the code excerpt is part of the text
query_text_with_code(description, code_snippet) ==
    description \o " " \o code_snippet

\* the text find_similar_vulnerabilities takes the keywords from: the
\* description, and nothing of the code excerpt
query_text(description, code_snippet) == description

\* find_similar_vulnerabilities, for the way its search ends: an error goes
\* to the except clause, a page is scored, filtered and sorted
FindSimilar(search) ==
    /\ mpc = "start"
    /\ inferred_tags' = infer_tags(vulnerability_description, snippet)
    /\ keywords' = extract_keywords(query_text(vulnerability_description, snippet))
    /\ results' = search
    /\ IF search.kind = "error"
       THEN /\ matches' = <<>>
            /\ mpc' = IF ExceptException(search.error) THEN "found" ELSE "raised"
       ELSE /\ matches' = sort_matches(score_findings(search.findings,
                                                      vulnerability_description, snippet,
                                                      inferred_tags', min_similarity))
            /\ mpc' = "found"
    /\ UNCHANGED <<vulnerability_description, snippet, candidate, relevance, previous,
                   min_similarity, report>>
    /\ RestUnchanged

\* the rest of main(): the matches are cut to max_results and the report is
\* made and printed; an exception ends the program with exit status 1
MainReport ==
    /\ mpc \in {"found", "raised"}
    /\ IF mpc = "found"
       THEN /\ matches' = Prefix(matches, DefaultMaxResults)
            /\ report' = generate_report("CLI-QUERY", matches', TRUE)
            /\ mpc' = "reported"
       ELSE /\ mpc' = "exit"
            /\ UNCHANGED <<matches, report>>
    /\ UNCHANGED <<vulnerability_description, snippet, inferred_tags, keywords, candidate,
                   relevance, previous, min_similarity, results>>
    /\ RestUnchanged

MatchNext ==
    \/ \E search \in SearchOutcomes : FindSimilar(search)
    \/ MainReport

MatchSpec == MatchInit /\ [][MatchNext]_vars

\* ------------------------------------------------ reports of match lists
\* findings as matches of a query: their tags and impacts
ReportFindings ==
    {[Finding(1, "", <<"Reentrancy">>, "", 25, 25) EXCEPT !.impact = "HIGH"],
     [Finding(2, "", <<"ACCESS CONTROL", "Admin">>, "", 25, 25) EXCEPT !.impact = "MEDIUM"],
     [Finding(3, "", <<"Price Oracle">>, "", 25, 25) EXCEPT !.impact = "LOW"],
     [Finding(4, "", <<"Rounding">>, "", 25, 25) EXCEPT !.impact = "GAS"],
     [Finding(5, "", <<"Precision Loss">>, "", 25, 25) EXCEPT !.impact = "HIGH"],
     [Finding(6, "", <<"Flash Loan Attack">>, "", 25, 25) EXCEPT !.impact = "MEDIUM"],
     [Finding(7, "", <<"Flashloan", "DoS">>, "", 25, 25) EXCEPT !.impact = "LOW"],
     [Finding(8, "", <<>>, "", 25, 25) EXCEPT !.impact = "GAS"]}

\* the lists find_similar_vulnerabilities can return for them: all of one
\* score, so any order is a sorted one
ReportMatchLists ==
    UNION {[1..n -> {[finding |-> f, relevance_score |-> Hundredths(50),
                      match_reasons |-> <<>>] : f \in ReportFindings}] :
              n \in 0..MaxFindings}

\* main() after find_similar_vulnerabilities has returned
ReportInit ==
    /\ RestInit /\ InitIo
    /\ vulnerability_description = "reentrancy in withdraw function"
    /\ snippet = ""
    /\ min_similarity = Hundredths(50)
    /\ inferred_tags = infer_tags(vulnerability_description, snippet)
    /\ keywords = extract_keywords(vulnerability_description)
    /\ candidate = NoFinding /\ relevance = NoRelevance /\ previous = NoRelevance
    /\ matches \in ReportMatchLists
    /\ results = [kind |-> "result", error |-> "",
                  findings |-> [i \in 1..Len(matches) |-> matches[i].finding]]
    /\ report = <<>> /\ mpc = "found"

ReportNext == MainReport

ReportSpec == ReportInit /\ [][ReportNext]_vars

\* ------------------------------------ search_findings: parsing the findings
\* the fields SoloditFinding is built from with f["..."]
RequiredFields == {"id", "slug", "title", "content", "impact"}

\* an element of "findings" that is a JSON object: the required fields it
\* has, its id, and its "issues_issuetagscore" list
RawObject(present, id, tagscore) ==
    [json |-> "object", present |-> present, id |-> id,
     issues_issuetagscore |-> tagscore]

TagEntry(title) == [has_tags_tag |-> TRUE, title |-> title]
BadTagEntry == [has_tags_tag |-> FALSE, title |-> ""]

\* what the service can put into "findings": complete records, records
\* without a required field, a record whose tag entry has no "tags_tag",
\* a record without tags, and an element that is a text
RawFindings ==
    {RawObject(RequiredFields, 1, <<TagEntry("Reentrancy")>>),
     RawObject(RequiredFields, 2, <<TagEntry("Oracle"), TagEntry("DoS")>>),
     RawObject(RequiredFields, 3, <<>>),
     RawObject(RequiredFields \ {"impact"}, 4, <<TagEntry("Oracle")>>),
     RawObject(RequiredFields \ {"id"}, 0, <<>>),
     RawObject({}, 0, <<>>),
     RawObject(RequiredFields, 7, <<TagEntry("Oracle"), BadTagEntry>>),
     [json |-> "string", present |-> {}, id |-> 0, issues_issuetagscore |-> <<>>]}

Parsed(finding) == [ok |-> TRUE, error |-> "", finding |-> finding]
ParseError(err) == [ok |-> FALSE, error |-> err, finding |-> NoFinding]

\* SoloditFinding(id=f["id"], ...): f["id"] on an element that is no object
\* raises TypeError, a missing key KeyError, also inside the tag list
parse_finding(f) ==
    IF f.json # "object" THEN ParseError("TypeError")
    ELSE IF ~(RequiredFields \subseteq f.present) THEN ParseError("KeyError")
    ELSE IF \E i \in 1..Len(f.issues_issuetagscore) :
                ~f.issues_issuetagscore[i].has_tags_tag
         THEN ParseError("KeyError")
    ELSE Parsed(Finding(f.id, "",
                        [i \in 1..Len(f.issues_issuetagscore) |->
                            f.issues_issuetagscore[i].title],
                        "", 0, 0))

\* variant of ExceptKeyOrTypeError with a slip: KeyError only
ExceptKeyError(err) == err = "KeyError"

\* except (KeyError, TypeError)
ExceptKeyOrTypeError(err) == err \in {"KeyError", "TypeError"}

\* the loop over response.get("findings", []): a record that cannot be
\* parsed is skipped when the except clause catches its error, otherwise
\* the error ends search_findings
RECURSIVE parse_findings(_)
parse_findings(items) ==
    IF items = <<>> THEN [kind |-> "result", error |-> "", findings |-> <<>>]
    ELSE LET front == parse_findings(SubSeq(items, 1, Len(items) - 1))
             p == parse_finding(items[Len(items)])
         IN IF front.kind = "error" THEN front
            ELSE IF p.ok THEN [front EXCEPT !.findings = Append(@, p.finding)]
            ELSE IF ExceptKeyOrTypeError(p.error) THEN front
            ELSE [kind |-> "error", error |-> p.error, findings |-> <<>>]

\* _make_request has returned a body with these "findings"
ParseInit ==
    /\ RestInit /\ InitMatch
    /\ response \in {[kind |-> "findings", items |-> l] :
                        l \in UNION {[1..n -> RawFindings] : n \in 0..MaxFindings}}
    /\ payload = Nothing /\ forward_payload = Nothing /\ sent = Nothing

\* search_findings from "# Parse findings" to the SearchResult
ParseFindings ==
    /\ response # Nothing /\ results = NoResults
    /\ results' = parse_findings(response.items)
    /\ UNCHANGED <<vulnerability_description, snippet, inferred_tags, keywords, candidate,
                   relevance, previous, min_similarity, matches, report, mpc>>
    /\ UNCHANGED <<cacheVars, searchVars, threadVars, clientVars, ioVars>>

ParseNext == ParseFindings

ParseSpec == ParseInit /\ [][ParseNext]_vars

\* ------------------------------------------------- the JSON-RPC gatekeeper
\* Model of scripts/rpc_gatekeeper.py.  A JSON-RPC request is a record with
\* the members it has; a value that is not a JSON object has none.
DEFAULT_DENY_PREFIXES ==
    <<"anvil_", "hardhat_", "debug_", "trace_", "txpool_", "personal_">>
DEFAULT_DENY_EXACT ==
    {"evm_setNextBlockTimestamp", "evm_setTime", "evm_mine", "evm_increaseTime",
     "eth_sendUnsignedTransaction"}

\* the most requests in a batch
MaxBatch == 2

\* methods of requests: allowed ones, denied ones, and ones near a denied one
Methods ==
    {"eth_call", "evm_mine", "anvil_setBalance", "Anvil_setBalance", "evm_mineX",
     "debug_"}
RpcIds == {1, 2}

\* the values a body can hold where a request is expected: an object with a
\* method, an object without one, and a number
RpcRequests ==
    {[json |-> "object", id |-> i, method |-> m] : i \in RpcIds, m \in Methods}
    \cup {[json |-> "object", id |-> i] : i \in RpcIds}
    \cup {[json |-> "number"]}

RECURSIVE SeqsUpTo(_, _)
SeqsUpTo(S, n) ==
    IF n = 0 THEN {<<>>}
    ELSE SeqsUpTo(S, n - 1)
         \cup {Append(q, x) : q \in {r \in SeqsUpTo(S, n - 1) : Len(r) = n - 1}, x \in S}

\* the bodies of POST requests: text that is not JSON, one request, a batch
Payloads ==
    {[kind |-> "invalid"]}
    \cup {[kind |-> "single", req |-> r] : r \in RpcRequests}
    \cup {[kind |-> "batch", reqs |-> q] : q \in SeqsUpTo(RpcRequests, MaxBatch)}

\* what the upstream endpoint does with a forwarded payload
UpstreamOutcomes == {"results", "one result", "exception"}

\* str.startswith
startswith(s, prefix) ==
    Len(s) >= Len(prefix) /\ SubSeq(s, 1, Len(prefix)) = prefix

\* variant of method_block_reason with a slip: the prefixes are not looked at
method_block_reason_exact(method) ==
    IF method \in DEFAULT_DENY_EXACT
    THEN "method '" \o method \o "' is blocked"
    ELSE ""

\* method_block_reason; None is the empty text
method_block_reason(method) ==
    IF method \in DEFAULT_DENY_EXACT
    THEN "method '" \o method \o "' is blocked"
    ELSE IF \E i \in 1..Len(DEFAULT_DENY_PREFIXES) :
                startswith(method, DEFAULT_DENY_PREFIXES[i])
    THEN LET i == Least({j \in 1..Len(DEFAULT_DENY_PREFIXES) :
                            startswith(method, DEFAULT_DENY_PREFIXES[j])})
         IN "method '" \o method \o "' is blocked by prefix '"
               \o DEFAULT_DENY_PREFIXES[i] \o "'"
    ELSE ""

make_error(rpc_id, code, message) ==
    [jsonrpc |-> "2.0", id |-> rpc_id, error |-> [code |-> code, message |-> message]]

\* req.get("method", "")
MethodOf(r) == IF "method" \in DOMAIN r THEN r.method ELSE ""

\* the loop of do_POST over the requests: the error replies of the blocked
\* ones and the allowed ones, both in the order of the body
ErrorsOf(reqs) ==
    LET blocked == SelectSeq(reqs, LAMBDA r : method_block_reason(MethodOf(r)) # "")
    IN [i \in 1..Len(blocked) |->
           make_error(blocked[i].id, 0 - 32000, method_block_reason(MethodOf(blocked[i])))]
AllowedOf(reqs) == SelectSeq(reqs, LAMBDA r : method_block_reason(MethodOf(r)) = "")

\* the reply of the upstream endpoint to what was forwarded to it
RpcResult(r) == [jsonrpc |-> "2.0", id |-> r.id, result |-> "0x1"]
UpstreamReply(fwd, up) ==
    IF up = "one result" \/ fwd.kind = "single"
    THEN [kind |-> "single",
          item |-> RpcResult(IF fwd.kind = "single" THEN fwd.req ELSE fwd.reqs[1])]
    ELSE [kind |-> "batch", items |-> [i \in 1..Len(fwd.reqs) |-> RpcResult(fwd.reqs[i])]]

\* the handler ended with an exception: the connection is closed, no reply
NoReply == [kind |-> "no reply"]

\* Handler.do_POST for the body received and what the upstream endpoint does
do_POST(up) ==
    /\ payload # Nothing /\ sent = Nothing
    /\ payload' = payload
    /\ LET body == payload IN
       IF body.kind = "invalid"
       THEN /\ sent' = [kind |-> "single",
                        item |-> make_error(NoneVal, 0 - 32700, "Invalid JSON")]
            /\ forward_payload' = Nothing /\ response' = Nothing
       ELSE
       LET is_list == body.kind = "batch"
           reqs == IF is_list THEN body.reqs ELSE <<body.req>>
       IN
       IF \E i \in 1..Len(reqs) : reqs[i].json # "object"
       THEN \* req.get of a value that is no object raises AttributeError
            /\ sent' = NoReply
            /\ forward_payload' = Nothing /\ response' = Nothing
       ELSE
       LET errors == ErrorsOf(reqs)
           allowed == AllowedOf(reqs)
           fwd == IF is_list THEN [kind |-> "batch", reqs |-> allowed]
                  ELSE [kind |-> "single", req |-> allowed[1]]
       IN
       IF allowed # <<>> /\ up = "exception"
       THEN /\ forward_payload' = fwd /\ response' = Nothing
            /\ sent' = [kind |-> "single",
                        item |-> make_error(NoneVal, 0 - 32001, "upstream error")]
       ELSE
       LET forwarded == IF allowed # <<>> THEN UpstreamReply(fwd, up) ELSE Nothing
           upstream_results ==
               IF allowed = <<>> THEN <<>>
               ELSE IF forwarded.kind = "batch" THEN forwarded.items
               ELSE <<forwarded.item>>
           response_items == upstream_results \o errors
       IN
       /\ forward_payload' = IF allowed # <<>> THEN fwd ELSE Nothing
       /\ response' = forwarded
       /\ sent' = IF is_list THEN [kind |-> "batch", items |-> response_items]
                  ELSE IF response_items # <<>>
                       THEN [kind |-> "single", item |-> response_items[1]]
                  ELSE [kind |-> "single",
                        item |-> make_error(NoneVal, 0 - 32600, "Invalid Request")]
    /\ UNCHANGED <<cacheVars, searchVars, threadVars, clientVars, matchVars>>

\* a POST request has come in and its body is read
GateInit ==
    /\ RestInit /\ InitMatch
    /\ payload \in Payloads
    /\ forward_payload = Nothing /\ response = Nothing /\ sent = Nothing

GateNext == \E up \in UpstreamOutcomes : do_POST(up)

GateSpec == GateInit /\ [][GateNext]_vars

\* ------------------------------------------------------ claims: the cache
\* C1: with a TTL greater than 0, a get of a key issued immediately after a
\* put of that key returns the value put, also when the put ran the eviction
C1_GetAfterPut ==
    (ttl > 0 /\ last.op = "get" /\ last.prevPut.is) => last.res = last.prevPut.value

C1_Witness ==
    /\ ttl > 0 /\ last.op = "get" /\ last.prevPut.is /\ last.prevPut.evicting
    /\ last.res = last.prevPut.value /\ last.res # NoneVal

EntryOf(c, k) == c[CHOOSE i \in 1..Len(c) : c[i].key = k]

\* C2: a get of a key whose entry is older than the TTL returns absent and
\* removes exactly that entry (the size drops by one, the other entries stay
\* as they were); a get of a key that is not in the store returns absent and
\* leaves the store alone, so a later get of the removed key is absent too
C2_GetExpiredRemoves ==
    [][\A k \in CacheKeys :
         (last'.op = "get" /\ last'.key = k) =>
            /\ (k \in KeysOf(cache) /\ now - EntryOf(cache, k).ts > ttl) =>
                  /\ last'.res = NoneVal
                  /\ Len(cache') = Len(cache) - 1
                  /\ k \notin KeysOf(cache')
                  /\ cache' = SelectSeq(cache, LAMBDA e : e.key # k)
            /\ k \notin KeysOf(cache) =>
                  (last'.res = NoneVal /\ cache' = cache)]_vars

C2_Witness ==
    /\ last.op = "get" /\ last.had /\ last.expired /\ last.res = NoneVal
    /\ last.key \notin KeysOf(cache) /\ Len(cache) >= 1

\* C3: when a put has completed the store holds at most MaxEntries entries,
\* and every entry the put evicted has a timestamp no newer than that of
\* every entry that is left
C3_EvictsOldest ==
    [][last'.op = "put" =>
         /\ Len(cache') <= MaxEntries
         /\ \A i \in 1..Len(cache) :
               cache[i].key \notin KeysOf(cache') =>
                  \A j \in 1..Len(cache') : cache[i].ts <= cache'[j].ts
         /\ last'.key \notin KeysOf(cache') =>
               \A j \in 1..Len(cache') : now <= cache'[j].ts]_vars

C3_Witness ==
    /\ last.op = "put" /\ last.evicted # <<>> /\ Len(cache) = MaxEntries
    /\ \E i \in 1..Len(last.evicted), j \in 1..Len(cache) :
          last.evicted[i].ts < cache[j].ts

\* ------------------------------------------------- claims: the retry loop
\* the errors a search can end with; the first two are SoloditAPIError
\* "Request timed out" and "Request failed", which is how the client reports
\* that the service is unavailable
ServiceUnavailable == {"RequestTimedOut", "RequestFailed"}
SearchEndings == {"result", "AuthError", "ValueError", "MaxRetriesExceeded"} \cup ServiceUnavailable

\* C4: whatever the service answers, a search makes at most 3 network calls
\* and then ends, with a result or with an error
C4_AtMostThreeCallsThenEnds ==
    /\ [](calls <= 3)
    /\ [](pc = "done" => outcome.kind \in SearchEndings)
    /\ (pc = "request") ~> (pc = "done" /\ outcome.kind \in SearchEndings)

C4_Witness ==
    pc = "done" /\ calls = 3 /\ nsleeps = 2 /\ outcome.kind = "result"

\* the wait a 429 asks for, in half seconds: its Retry-After value, 2 seconds
\* when the header is missing or not a number of seconds
HintHalfSeconds(h) == IF IsIntText(h) THEN 2 * IntOfText(h) ELSE 2 * DefaultRetryAfter

\* C5: a search whose every attempt receives HTTP 429 makes exactly 3 network
\* calls, sleeps the Retry-After value before each retry, and ends with
\* ServiceUnavailable
C5_All429ThreeCalls ==
    (all429 /\ calls > 0) =>
       /\ pc = "request" => (nsleeps = calls /\ slept = HintHalfSeconds(got))
       /\ pc = "done" =>
             (calls = 3 /\ nsleeps = 2 /\ outcome.kind \in ServiceUnavailable)

\* C6: an HTTP 401 or 403 ends the search at once with AuthError: no sleep
\* and no network call follows it, so after a 401 on the first attempt there
\* has been exactly one call
C6_AuthFailsAtOnce ==
    got \in {"401", "403"} =>
       /\ pc = "done"
       /\ outcome.kind = "AuthError"
       /\ nsleeps = calls - 1

C6_Witness ==
    got = "401" /\ calls = 1 /\ nsleeps = 0 /\ pc = "done" /\ outcome.kind = "AuthError"

\* ------------------------------------- claims: the cache in search_findings
\* C7: a search with caching enabled that finds an entry no older than the
\* TTL under its key returns the value of that entry, makes no network call
\* and no sleep, and leaves the store as it was
C7_CacheHitBypassesNetwork ==
    [][\A k \in CacheKeys :
         (pc = "idle" /\ last'.op = "get" /\ last'.by = "search" /\ last'.key = k
            /\ k \in KeysOf(cache) /\ now - EntryOf(cache, k).ts <= ttl) =>
               /\ pc' = "done"
               /\ outcome' = [kind |-> "result", value |-> EntryOf(cache, k).value,
                              cached |-> TRUE]
               /\ calls' = 0 /\ nsleeps' = 0
               /\ cache' = cache]_vars

C7_Witness ==
    /\ last.op = "get" /\ last.by = "search" /\ ~last.prevPut.is
    /\ pc = "done" /\ outcome.cached /\ calls = 0 /\ Len(cache) = MaxEntries
    /\ outcome.value = EntryOf(cache, last.key).value

\* C8: when a search with caching enabled has received a successful
\* response, the store holds the result under the key of the request; an
\* entry leaves the store or changes only by an eviction, by a get that
\* finds it older than the TTL, or by a put of its key; and a search for a
\* key whose entry is no older than the TTL ends without a network call
C8_StoredThenServedFromCache ==
    /\ []((pc = "done" /\ last.op = "put" /\ last.by = "search") =>
            /\ last.key = req.key /\ req.use_cache
            /\ got \in {"200", "200 no fields"}
            /\ req.key \in KeysOf(cache)
            /\ EntryOf(cache, req.key) =
                  [key |-> req.key, value |-> outcome.value, ts |-> now])
    /\ [][\A i \in 1..Len(cache) :
            \/ \E j \in 1..Len(cache') : cache'[j] = cache[i]
            \/ last'.op = "put" /\ last'.evicted # <<>>
            \/ last'.op = "put" /\ last'.key = cache[i].key
            \/ last'.op = "get" /\ last'.key = cache[i].key
                  /\ now - cache[i].ts > ttl]_vars
    /\ [][(req'.use_cache /\ pc = "idle" /\ pc' = "request") =>
             \/ req'.key \notin KeysOf(cache)
             \/ now - EntryOf(cache, req'.key).ts > ttl]_vars

C8_Witness ==
    /\ last.op = "get" /\ last.by = "search" /\ last.prevPut.is
    /\ last.res = last.prevPut.value
    /\ pc = "done" /\ outcome.cached /\ calls = 0

\* ---------------------------------------------------- claims: concurrency
\* C9: under any interleaving of the steps of concurrent callers, no get or
\* put ends with an error, and no caller reads the store while another
\* caller is in the middle of an eviction
C9_ConcurrentCacheSafe ==
    \A t \in Threads : tloc[t].ended # "KeyError" /\ ~tloc[t].sawEviction

\* C10: between two resets at most one client is constructed and all
\* callers of get_client, under any interleaving, receive that one instance
C10_OneClientBetweenResets ==
    /\ Cardinality(made) <= 1
    /\ \A t, u \in Threads :
          (cret[t] # NoClient /\ cret[u] # NoClient) => cret[t] = cret[u]

\* ------------------------------------------------- claims: the relevance
\* C12: every score _calculate_relevance returns is in the closed range
\* from 0 to 1
C12_ScoreInUnitRange ==
    relevance # NoRelevance => (0 <= relevance.score /\ relevance.score <= ScoreUnit)

C12_Witness ==
    /\ relevance.score = ScoreUnit
    /\ relevance.keyword_score = Hundredths(35)
    /\ relevance.tag_score = Hundredths(30)
    /\ relevance.protocol_score = Hundredths(15)
    /\ candidate.quality_score = 50 /\ candidate.rarity_score = 50

\* C13: when a finding is scored again with another content and everything
\* else as before, the score is no lower if no fewer of the query's keywords
\* are found in the new content
C13_MonotoneInMatchedKeywords ==
    (relevance # NoRelevance /\ previous # NoRelevance
       /\ previous.matched <= relevance.matched)
    => previous.score <= relevance.score

C13_Witness ==
    /\ relevance # NoRelevance /\ previous # NoRelevance
    /\ previous.matched = 2 /\ relevance.matched = 4
    /\ previous.score < relevance.score
    /\ relevance.score < ScoreUnit

\* C14: for the description "reentrancy in withdraw function", with the
\* tags inferred from it as query tags, a finding tagged "Reentrancy" whose
\* content contains "reentrancy" and "external call" and whose quality and
\* rarity are at least 2.5 has a keyword component and a tag component above
\* 0 and a score above 0.5
C14_ReentrancyExample ==
    (/\ relevance # NoRelevance
     /\ vulnerability_description = "reentrancy in withdraw function"
     /\ inferred_tags = infer_tags(vulnerability_description, "")
     /\ "Reentrancy" \in Range(candidate.tags)
     /\ Occurs("reentrancy", lower(candidate.content))
     /\ Occurs("external call", lower(candidate.content))
     /\ candidate.quality_score >= 25 /\ candidate.rarity_score >= 25)
    => /\ relevance.keyword_score > 0
       /\ relevance.tag_score > 0
       /\ relevance.score > Hundredths(50)

C14_Witness ==
    /\ vulnerability_description = "reentrancy in withdraw function"
    /\ inferred_tags = <<"Reentrancy", "CEI", "External Call">>
    /\ candidate.tags = <<"Reentrancy">>
    /\ candidate.content = "Reentrancy through an external call in withdraw"
    /\ candidate.protocol_name = ""
    /\ candidate.quality_score = 25 /\ candidate.rarity_score = 25
    /\ relevance.keyword_score = Hundredths(35)
    /\ relevance.tag_score = Hundredths(10)
    /\ relevance.score = Hundredths(55)

\* C15 as stated: a finding with no tags and none of the query's keywords
\* in its content scores at most 0.20, whatever its protocol name
C15_UnrelatedAtMostFifth ==
    (relevance # NoRelevance /\ candidate.tags = <<>> /\ relevance.matched = 0)
    => relevance.score <= Hundredths(20)

\* C15 amended: such a finding scores its quality and rarity bonuses, at
\* most 0.20, plus the protocol bonus of 0.15 when an indicator word is in
\* both the description and its protocol name: at most 0.35, and at most
\* 0.20 when no indicator word is shared
C15_UnrelatedAtMostFifthPlusProtocol ==
    (relevance # NoRelevance /\ candidate.tags = <<>> /\ relevance.matched = 0)
    => /\ relevance.keyword_score = 0 /\ relevance.tag_score = 0
       /\ relevance.score
             = relevance.protocol_score
               + (Hundredths(10) * (candidate.quality_score + candidate.rarity_score))
                 \div 50
       /\ relevance.score <= Hundredths(35)
       /\ (\A i \in 1..Len(protocol_indicators) :
              ~(Occurs(protocol_indicators[i], lower(vulnerability_description))
                /\ Occurs(protocol_indicators[i], lower(candidate.protocol_name))))
          => relevance.score <= Hundredths(20)

C15_Witness ==
    /\ relevance # NoRelevance /\ candidate.tags = <<>> /\ relevance.matched = 0
    /\ vulnerability_description = "Oracle price manipulation in DeFi lending"
    /\ candidate.protocol_name = "DeFi Lending Pool"
    /\ relevance.protocol_score = Hundredths(15)
    /\ relevance.score = Hundredths(35)

\* ------------------------------------------------------ claims: the matcher
\* the report generate_report returns for an empty list
NoMatchNotice ==
    <<[heading |-> "## Pattern Matching Report", items |-> <<"CLI-QUERY">>],
      [heading |-> "**Status**: No similar historical findings found", items |-> <<>>],
      [heading |-> "**Analysis**", items |-> <<>>],
      [heading |-> "**Recommendation**", items |-> <<>>]>>

\* C11: when the search fails, with whatever error, the matcher does not
\* raise: it returns the empty list, and the report made from it is the
\* no-match report
C11_SearchErrorGivesNoMatchReport ==
    results.kind = "error" =>
        /\ mpc \in {"found", "reported"}
        /\ matches = <<>>
        /\ (mpc = "reported" => report = NoMatchNotice)

C11_Witness ==
    /\ results.kind = "error" /\ results.error = "ValueError"
    /\ mpc = "reported" /\ report = NoMatchNotice

\* C16: the matches returned for a page are exactly the findings of the
\* page whose score is at least min_similarity, each with its score, in
\* descending order of score, and findings with equal scores stay in the
\* order of the page
C16_MatchesFilteredAndStablySorted ==
    (mpc = "found" /\ results.kind = "result") =>
        LET page == results.findings
            sc == [i \in 1..Len(page) |->
                      calculate_relevance(page[i], vulnerability_description,
                                          snippet, inferred_tags).score]
            kept == {i \in 1..Len(page) : sc[i] >= min_similarity}
        IN /\ Len(matches) = Cardinality(kept)
           /\ \E pos \in [1..Len(matches) -> kept] :
                 /\ \A i, j \in 1..Len(matches) : i # j => pos[i] # pos[j]
                 /\ \A i \in 1..Len(matches) :
                       /\ matches[i].finding = page[pos[i]]
                       /\ matches[i].relevance_score = sc[pos[i]]
                 /\ \A i, j \in 1..Len(matches) :
                       i < j =>
                          \/ sc[pos[i]] > sc[pos[j]]
                          \/ sc[pos[i]] = sc[pos[j]] /\ pos[i] < pos[j]

C16_Witness ==
    /\ mpc = "found" /\ results.kind = "result"
    /\ Len(results.findings) = 2 /\ Len(matches) = 2
    /\ results.findings[1].id = 1 /\ results.findings[2].id = 2
    /\ matches[1].finding.id = 1 /\ matches[2].finding.id = 2
    /\ matches[1].relevance_score = matches[2].relevance_score

\* C17: the inferred tags are tags of the classes that have a keyword in the
\* lower-cased text, none twice, at most 5, in the order of the table (by
\* class, then by place in the class), and a tag of such a class is left
\* out only when 5 tags come before it; for the access-control example
\* they include "Access Control" and "Admin"
C17_InferredTags ==
    mpc # "start" =>
        LET text == lower(vulnerability_description \o " " \o snippet)
            hit == {c \in 1..Len(VULNERABILITY_PATTERNS) :
                       \E k \in 1..Len(VULNERABILITY_PATTERNS[c].keywords) :
                           Occurs(lower(VULNERABILITY_PATTERNS[c].keywords[k]), text)}
            places(t) == {q[1] * 100 + q[2] :
                             q \in {r \in hit \X (1..99) :
                                       /\ r[2] <= Len(VULNERABILITY_PATTERNS[r[1]].tags)
                                       /\ VULNERABILITY_PATTERNS[r[1]].tags[r[2]] = t}}
            offered == UNION {Range(VULNERABILITY_PATTERNS[c].tags) : c \in hit}
            rank(t) == Least(places(t))
            n == Len(inferred_tags)
        IN /\ n <= 5
           /\ Range(inferred_tags) \subseteq offered
           /\ \A i, j \in 1..n : i < j => rank(inferred_tags[i]) < rank(inferred_tags[j])
           /\ \A t \in offered \ Range(inferred_tags) :
                 n = 5 /\ rank(t) > rank(inferred_tags[5])
           /\ (vulnerability_description =
                   "access control on mint function, only owner check missing"
               => {"Access Control", "Admin"} \subseteq Range(inferred_tags))

C17_Witness ==
    /\ mpc # "start"
    /\ vulnerability_description =
           "access control on mint function, only owner check missing"
    /\ snippet = "onlyOwner modifier"
    /\ inferred_tags = <<"Access Control", "Authentication", "Admin", "Authorization">>

\* C18: the report of an empty match list is the fixed no-match notice, with
\* no ranked list, no statistics and no checklist in it; the report of a
\* list that is not empty is never that notice
C18_EmptyListGivesNotice ==
    mpc = "reported" =>
        LET headings == {report[i].heading : i \in 1..Len(report)}
        IN IF matches = <<>>
           THEN /\ report = NoMatchNotice
                /\ headings \cap {"### Top Historical Matches", "### Summary Statistics",
                                  "### Recommended Verification Steps"} = {}
           ELSE /\ report # NoMatchNotice
                /\ "**Status**: No similar historical findings found" \notin headings
                /\ "### Top Historical Matches" \in headings

C18_Witness ==
    /\ mpc = "reported" /\ results.kind = "result"
    /\ Len(results.findings) = 2 /\ matches = <<>>
    /\ report = NoMatchNotice

\* ------------------------------------------- claims: responses out of order
\* C19: after an HTTP 429 whose Retry-After header is missing or is not a
\* valid number of seconds (not a number, or negative), the search has not
\* failed on the header: while attempts are left it has slept the default 2
\* seconds and goes on with the next attempt
C19_InvalidRetryAfterWaitsDefault ==
    (got \in RetryAfterHeaders
        /\ (got = "absent" \/ ~IsIntText(got) \/ IntOfText(got) < 0)) =>
       /\ outcome.kind # "ValueError"
       /\ (calls < MAX_RETRIES =>
              pc = "request" /\ slept = 2 * DefaultRetryAfter /\ attempt = calls)

\* C20: a 200 response whose body is not JSON, or is JSON without the fields
\* findings, metadata and rateLimit, ends the search at once with
\* MalformedResponse: no further attempt, no result, and no entry written
\* to the cache
C20_MalformedResponseIsFatal ==
    got \in {"200 not JSON", "200 no fields"} =>
       /\ pc = "done"
       /\ outcome.kind = "MalformedResponse"
       /\ last.op # "put"

\* ------------------------------------------------- claims: the second part
\* C21: the oldest entries are evicted before a new entry is inserted, so
\* the store never holds more than the maximum number of entries, also not
\* between two statements of a put; stated for a store that one thread
\* alone has ever used
C21_NeverOverMaximum ==
    (\E t \in Threads : \A u \in Threads \ {t} : tpc[u] = "idle" /\ tloc[u] = NoLocals)
        => Len(cache) <= MaxEntries

\* the lines under "Recommended Verification Steps" of the report
ChecksBlock ==
    LET at == CHOOSE i \in 1..Len(report) :
                 report[i].heading = "### Recommended Verification Steps"
    IN report[at].items

\* C22: the block of recommended checks holds the two checks of a family
\* when some match has a tag that contains a word of the family, whatever
\* the case of its letters, and none of the two otherwise; every line is
\* there once, the lines are in sorted order (as texts: "10." comes before
\* "2."), and the fallback line is there exactly when no family applies
C22_RecommendedChecks ==
    (mpc = "reported" /\ matches # <<>>) =>
       LET block == ChecksBlock
           lines == Range(block)
           tags == UNION {Range(matches[i].finding.tags) : i \in 1..Len(matches)}
           applies(f) == \E t \in tags : \E w \in CheckFamilies[f].words :
                            Occurs(w, lower(t))
       IN /\ \A f \in DOMAIN CheckFamilies :
                IF applies(f) THEN CheckFamilies[f].checks \subseteq lines
                ELSE CheckFamilies[f].checks \cap lines = {}
          /\ \A i, j \in 1..Len(block) : i < j => StrLess(block[i], block[j])
          /\ (FallbackCheck \in lines) = (\A f \in DOMAIN CheckFamilies : ~applies(f))
          /\ lines \subseteq {FallbackCheck}
                              \cup UNION {CheckFamilies[f].checks : f \in DOMAIN CheckFamilies}

C22_Witness ==
    /\ mpc = "reported" /\ Len(matches) = 2
    /\ matches[1].finding.tags = <<"ACCESS CONTROL", "Admin">>
    /\ matches[2].finding.tags = <<"Flash Loan Attack">>
    /\ ChecksBlock =
          <<"10. Check for flash loan protection mechanisms",
            "3. Verify access control modifiers on all privileged functions",
            "4. Check that ownership can't be transferred to address(0)",
            "9. Validate price can't be manipulated in single transaction">>

\* C23: after attempt k = 1, 2 of a search has failed with a timeout or a
\* transport error the client has slept 0.5 * k seconds (k half seconds)
\* and goes on with attempt k + 1, so a later wait of the search is longer
\* than an earlier one; after the third such failure it does not sleep and
\* the search ends with ServiceUnavailable
C23_BackoffGrows ==
    /\ [](got \in {"timeout", "connerr"} =>
            IF calls < 3
            THEN pc = "request" /\ attempt = calls /\ slept = calls
                 /\ nsleeps = calls
            ELSE pc = "done" /\ slept = NoSleep /\ nsleeps = 2
                 /\ outcome.kind \in ServiceUnavailable)
    /\ [][(got \in {"timeout", "connerr"} /\ got' \in {"timeout", "connerr"}
             /\ pc = "request" /\ pc' = "request" /\ calls' = calls + 1)
          => slept' > slept]_vars

C23_Witness ==
    /\ got = "timeout" /\ calls = 2 /\ pc = "request" /\ slept = 2 /\ nsleeps = 2

\* the ids of the records of the response that satisfy a condition, in
\* the order of the response
IdsOfRecords(Keep(_)) ==
    LET kept == SelectSeq(response.items, Keep)
    IN [i \in 1..Len(kept) |-> kept[i].id]

ResultIds == [i \in 1..Len(results.findings) |-> results.findings[i].id]

HasRequiredFields(f) == f.json = "object" /\ RequiredFields \subseteq f.present

SeverityLabel ==
    LET at == CHOOSE i \in 1..Len(report) : report[i].heading = "### Summary Statistics"
    IN report[at].items[1]

LabelOf(n) ==
    CASE n = 3 -> "HIGH" [] n = 2 -> "MEDIUM" [] n = 1 -> "LOW" [] n = 0 -> "GAS/INFO"

ImpactValue(impact) ==
    CASE impact = "HIGH" -> 3 [] impact = "MEDIUM" -> 2 [] impact = "LOW" -> 1
      [] impact = "GAS" -> 0

\* C25: the average-severity label of a list of matches is the label of
\* the integer nearest to the mean of their severities (HIGH 3, MEDIUM 2,
\* LOW 1, GAS 0), of the even one of the two when the mean lies halfway: one
\* HIGH and one MEDIUM give MEDIUM, one MEDIUM and one LOW give MEDIUM; the
\* label is one of the four, never UNKNOWN
C25_AverageSeverity ==
    (mpc = "reported" /\ matches # <<>>) =>
       LET n == Len(matches)
           total == Sum([i \in 1..n |-> ImpactValue(matches[i].finding.impact)])
           \* twice the distance of k from the mean, times n
           off(k) == IF 2 * k * n >= 2 * total THEN 2 * k * n - 2 * total
                     ELSE 2 * total - 2 * k * n
           nearest == {k \in 0..3 : off(k) < n \/ (off(k) = n /\ k % 2 = 0)}
           impacts == {matches[i].finding.impact : i \in 1..n}
       IN /\ Cardinality(nearest) = 1
          /\ \A k \in nearest : SeverityLabel = LabelOf(k)
          /\ SeverityLabel \in {"HIGH", "MEDIUM", "LOW", "GAS/INFO"}
          /\ (n = 2 /\ impacts = {"HIGH", "MEDIUM"} => SeverityLabel = "MEDIUM")
          /\ (n = 2 /\ impacts = {"MEDIUM", "LOW"} => SeverityLabel = "MEDIUM")

C25_Witness ==
    /\ mpc = "reported" /\ Len(matches) = 2
    /\ matches[1].finding.impact = "HIGH" /\ matches[2].finding.impact = "MEDIUM"
    /\ SeverityLabel = "MEDIUM"

\* the place of a keyword in the taxonomy table, 0 when it is not there
TaxonomyPlace(k) ==
    LET P == {i * 10 + j : i \in 1..Len(VULNERABILITY_PATTERNS), j \in 1..5} IN
    LET at == {q \in P : /\ (q % 10) <= Len(VULNERABILITY_PATTERNS[q \div 10].keywords)
                         /\ (q % 10) >= 1
                         /\ VULNERABILITY_PATTERNS[q \div 10].keywords[q % 10] = k} IN
    IF at = {} THEN 0 ELSE Least(at)

\* the fixed literal patterns, in the order they are tried
LiteralPatterns == <<".call{value:", "delegatecall", "transfer(", "require(">>

\* the word k is the name after "function" somewhere in the text t
IsFunctionName(k, t) ==
    \E j \in 1..(Len(t) - 7) :
        /\ FunctionAt(t, j)
        /\ k = SubSeq(t, RunEnd(t, j + 8, Whitespace) + 1,
                      RunEnd(t, RunEnd(t, j + 8, Whitespace) + 1, WordChars))

\* when a keyword is first seen: the taxonomy keywords in table order, then
\* the function names, then the literal patterns in their order
FirstSeen(k, t) ==
    IF TaxonomyPlace(k) > 0 /\ Occurs(lower(k), lower(t)) THEN TaxonomyPlace(k)
    ELSE IF IsFunctionName(k, t) THEN 1000
    ELSE IF k \in Range(LiteralPatterns)
         THEN 2000 + (CHOOSE i \in 1..Len(LiteralPatterns) : LiteralPatterns[i] = k)
    ELSE 3000

\* C26: the keywords taken from the description of a query have no duplicates,
\* stand in first-seen order, and each is a taxonomy keyword that occurs in the
\* description whatever the case, or a text one of the fixed patterns matches
\* in the description; every such keyword and text is there, and the code
\* excerpt contributes nothing.
C26_KeywordsOfDescription ==
    mpc # "start" =>
        LET d == vulnerability_description IN
        /\ \A i, j \in 1..Len(keywords) : i < j =>
              /\ keywords[i] # keywords[j]
              /\ FirstSeen(keywords[i], d) <= FirstSeen(keywords[j], d)
        /\ \A i \in 1..Len(keywords) :
              \/ TaxonomyPlace(keywords[i]) > 0 /\ Occurs(lower(keywords[i]), lower(d))
              \/ IsFunctionName(keywords[i], d)
              \/ keywords[i] \in Range(LiteralPatterns) /\ Occurs(keywords[i], d)
        /\ \A c \in 1..Len(VULNERABILITY_PATTERNS) :
              \A k \in Range(VULNERABILITY_PATTERNS[c].keywords) :
                  Occurs(lower(k), lower(d)) => k \in Range(keywords)
        /\ \A k \in Range(LiteralPatterns) : Occurs(k, d) => k \in Range(keywords)

C26_Witness ==
    /\ mpc # "start"
    /\ snippet = "onlyOwner modifier"
    /\ vulnerability_description
          = "function transfer( uses delegatecall then delegatecall in a proxy"
    /\ keywords = <<"delegatecall", "proxy", "transfer", "transfer(">>

\* max(1, min(n, hi)) spelt out
Clamped(n, hi) == IF n < 1 THEN 1 ELSE IF n > hi THEN hi ELSE n

\* C27: whatever page and page size the caller passes, the request has a page
\* of at least 1 and a page size from 1 to 100 (the value passed when it is in
\* range, else the nearest limit), and the cache key is made of the clamped
\* values: two calls that clamp to the same values share one cache entry.
C27_ClampedRequest ==
    [][\A p \in AnyPageArgs, s \in AnyPageSizeArgs, u \in BOOLEAN :
          SearchBegin(p, s, u) =>
              LET key == <<"/findings", Clamped(p, p + 1), Clamped(s, 100)>> IN
              /\ req'.key = key
              /\ req'.key[2] >= 1 /\ req'.key[3] \in 1..100
              /\ (/\ u
                  /\ \E i \in 1..Len(cache) :
                        /\ cache[i].key = key
                        /\ ~IsExpired(cache[i], now, ttl)
                        /\ Truthy(cache[i].value))
                 => /\ pc' = "done" /\ outcome'.cached
                    /\ outcome'.value = cache[IndexOf(cache, key)].value]_vars

C27_Witness ==
    /\ pc = "done" /\ outcome.cached
    /\ req.key = <<"/findings", 1, 100>>

\* the entries of the store c2 that c1 does not have as they are: added ones,
\* and ones whose value or timestamp was replaced
NewEntries(c1, c2) == Range(c2) \ Range(c1)

\* C28: a step of a search adds a cache entry, or replaces the value or the
\* timestamp of one, only when it ends the search with a result fetched from
\* the service and the caller asked for caching; so a search that ends with an
\* error, and a search run with caching disabled, never does.
C28_OnlyCachingSearchesWrite ==
    [][/\ NewEntries(cache, cache') # {}
          => /\ pc = "request" /\ pc' = "done"
             /\ outcome'.kind = "result" /\ ~outcome'.cached
             /\ req.use_cache
       /\ (pc = "request" /\ pc' = "done"
           /\ (outcome'.kind # "result" \/ ~req.use_cache))
          => cache' = cache]_vars

C28_Witness ==
    /\ pc = "done" /\ req.use_cache
    /\ outcome.kind = "RequestTimedOut" /\ calls = MAX_RETRIES
    /\ cache # <<>>

\* C29: an HTTP error status other than 429, 401 and 403 is handled like a
\* transport error: after the k-th call, k = 1, 2, has brought such a status
\* the client has slept 0.5 * k seconds and goes on with the next attempt, and
\* after the third the search ends with the error of a failed request; a 429 on
\* the third attempt ends the search with that same error, without a sleep
C29_ErrorStatusRetried ==
    /\ got = "500" =>
          IF calls < MAX_RETRIES
          THEN pc = "request" /\ attempt = calls /\ slept = calls
          ELSE pc = "done" /\ slept = NoSleep /\ outcome.kind = "RequestFailed"
    /\ (calls = MAX_RETRIES /\ got \in RetryAfterHeaders) =>
          pc = "done" /\ slept = NoSleep /\ outcome.kind = "RequestFailed"

\* a request the gatekeeper must not let through: its method is on the exact
\* deny list or begins with a denied prefix
IsDenied(r) ==
    /\ "method" \in DOMAIN r
    /\ \/ r.method \in DEFAULT_DENY_EXACT
       \/ \E i \in 1..Len(DEFAULT_DENY_PREFIXES) :
             LET p == DEFAULT_DENY_PREFIXES[i] IN
             Len(r.method) >= Len(p) /\ SubSeq(r.method, 1, Len(p)) = p

\* C30: what the gatekeeper forwards to the upstream endpoint holds no request
\* whose method is on the exact deny list or begins with a denied prefix: a
\* single request that is denied is not forwarded at all, and of a batch
\* exactly the requests that are not denied are forwarded, in their order;
\* when none is left nothing is forwarded.
C30_NoDeniedRequestForwarded ==
    /\ forward_payload # Nothing =>
          /\ payload # Nothing /\ payload.kind = forward_payload.kind
          /\ forward_payload.kind = "single" =>
                forward_payload.req = payload.req /\ ~IsDenied(payload.req)
          /\ forward_payload.kind = "batch" =>
                /\ forward_payload.reqs # <<>>
                /\ forward_payload.reqs
                      = SelectSeq(payload.reqs, LAMBDA r : ~IsDenied(r))
    /\ (sent # Nothing /\ payload.kind = "single" /\ IsDenied(payload.req)) =>
          /\ forward_payload = Nothing
          /\ sent.item.id = payload.req.id /\ sent.item.error.code = 0 - 32000
    /\ (sent # Nothing /\ payload.kind = "batch"
        /\ \A i \in 1..Len(payload.reqs) : IsDenied(payload.reqs[i])) =>
          forward_payload = Nothing

C30_Witness ==
    /\ payload.kind = "batch" /\ Len(payload.reqs) = 2
    /\ payload.reqs[1].json = "object" /\ IsDenied(payload.reqs[1])
    /\ payload.reqs[1].method = "anvil_setBalance"
    /\ payload.reqs[2].json = "object" /\ ~IsDenied(payload.reqs[2])
    /\ forward_payload # Nothing /\ forward_payload.reqs = <<payload.reqs[2]>>
    /\ sent # Nothing /\ sent.kind = "batch" /\ Len(sent.items) = 2

====
